---- MODULE Spec2Model ----
(***************************************************************************)
(* State-machine model of the 360Tube backend: the account directory and   *)
(* token service (user.controller.ts, user.model.ts), the authorization    *)
(* guard (verifyJWT), the media asset delegate (cloudinary helpers) and    *)
(* the guarded video and subscription routes.                              *)
(*                                                                         *)
(* A request handler is an operator over the current state and the         *)
(* request's inputs that yields the state it leaves behind and the one     *)
(* response the client receives; an action applies it.  A handler that     *)
(* writes a response without returning keeps running: what it does after   *)
(* that is part of the state it leaves behind, while the response the      *)
(* client received stays the first one written (Express refuses to set     *)
(* headers once they were sent).                                           *)
(*                                                                         *)
(* Tokens are what jwt.sign makes of them: a function of the token class   *)
(* (its secret), the payload and the second of issue.  Requests carry any  *)
(* token a client can put on the wire; jwt.verify is the only provenance   *)
(* check the handlers perform.                                             *)
(***************************************************************************)
EXTENDS Integers, Sequences, FiniteSets, Bags, TLC

VARIABLES
    users,      \* the users collection: _id -> document, in creation order
    cloud,      \* publicIds of the assets held by the remote store
    nextAsset,  \* the publicId the remote store hands out next
    now,        \* the clock, in seconds
    last,       \* the last request served: handler, status line, envelope code
    pending,    \* registerUser requests suspended between query and create
    videos,     \* the videos collection: _id -> document
    nextVideo,  \* the _id the next video document gets
    subs,       \* the subscriptions collection: <<subscriber, channel>> ->
                \* number of documents
    comments,   \* the comments collection: _id -> document
    tweets,     \* the tweets collection: _id -> document
    playlists,  \* the playlists collection: _id -> document
    likes,      \* the likes collection: a bag of documents
    nextDoc,    \* the _id the next comment, tweet or playlist document gets
    toggling    \* toggle requests suspended between findOne and create/deleteOne

vars == <<users, cloud, nextAsset, now, last, pending, videos, nextVideo, subs,
          comments, tweets, playlists, likes, nextDoc, toggling>>

\* the collections and the remote store
stores == <<users, cloud, nextAsset, videos, nextVideo, subs, comments, tweets,
            playlists, likes, nextDoc>>

\* what the handlers leave alone
others == <<now, pending, toggling>>

(* ------------------------------ bounds --------------------------------- *)
MaxUsers == 2
MaxTime == 2
MaxAssets == 4
MaxPending == 2
MaxVideos == 2
MaxDocs == 2
\* process.env.*_TOKEN_EXPIRY, in seconds of the model clock
AccessTokenExpiry == 2
RefreshTokenExpiry == 2
EmailTokenExpiry == 2

Ids == 1..MaxUsers

(* ------------------------------ values --------------------------------- *)
NoAsset == 0

\* a field that is not set on the document / not present on the request
Undefined == [kind |-> "undefined", _id |-> 0, iat |-> 0, sig |-> "none"]
\* the empty string stored in a token field
EmptyString == [kind |-> "empty", _id |-> 0, iat |-> 0, sig |-> "none"]

Falsy(token) == token.kind \in {"undefined", "empty"}

\* request body fields as the client sends them; "" is a missing field
Usernames == {"", "ana", "ANA", "bob"}
Emails == {"", "ana@x.com", "ANA@x.com", "bob@x.com", "ana.x.com"}
FullNames == {"", "Ana"}
Passwords == {"", "pw1", "pw2"}

\* schema options lowercase: true, trim: true (applied to stored values and
\* to query filters alike)
Normalize(s) ==
    CASE s = "ANA" -> "ana"
      [] s = "ANA@x.com" -> "ana@x.com"
      [] OTHER -> s

\* /^[\w-]+(\.[\w-]+)*@([\w-]+\.)+[a-zA-Z]{2,7}$/ on the request values
validateEmail(email) == email \in {"ana@x.com", "ANA@x.com", "bob@x.com"}

(* ------------------------- credential service -------------------------- *)
Plain(p) == [text |-> p, rounds |-> 0]

bcryptHash(pw) == [pw EXCEPT !.rounds = @ + 1]

bcryptCompare(password, hash) == hash = bcryptHash(Plain(password))

\* the hook without its isModified("password") guard
preSave_Always(doc, passwordModified) == [doc EXCEPT !.password = bcryptHash(@)]

\* userSchema.pre("save"): hash only when the password path was modified
preSave(doc, passwordModified) ==
    IF ~passwordModified THEN doc
    ELSE [doc EXCEPT !.password = bcryptHash(@)]

\* the comparison not awaited: a pending promise is truthy
isPasswordCorrect_NotAwaited(doc, password) == TRUE

isPasswordCorrect(doc, password) == bcryptCompare(password, doc.password)

\* jwt.sign(payload, secret, {expiresIn}): HS256 is deterministic, the token
\* is fixed by the secret (kind), the payload and iat = the current second
jwtSign(kind, id, t) == [kind |-> kind, _id |-> id, iat |-> t, sig |-> "good"]

Expiry(kind) ==
    CASE kind = "access" -> AccessTokenExpiry
      [] kind = "refresh" -> RefreshTokenExpiry
      [] OTHER -> EmailTokenExpiry

\* jwt.verify(token, secret): signature made with that secret, not expired
jwtVerify(token, kind, t) ==
    /\ token.sig = "good"
    /\ token.kind = kind
    /\ t < token.iat + Expiry(kind)

\* the access token also carries email, username and fullName; no handler
\* reads them, the guard loads the account by _id
generateAccessToken(id, t) == jwtSign("access", id, t)

generateRefreshToken(id, t) == jwtSign("refresh", id, t)

generateEmailToken(id, t) == jwtSign("email", id, t)

OtherKind(kind) == IF kind = "refresh" THEN "access" ELSE "refresh"

\* every token string a client can send at time t where a token of class
\* kind is expected, besides none: well signed for any account id and second
\* of issue, signed with another class's secret, or with a bad signature
TokensAt(kind, t) ==
    {jwtSign(kind, i, s) : i \in Ids, s \in 0..t}
    \cup {jwtSign(OtherKind(kind), 1, t)}
    \cup {[kind |-> kind, _id |-> 1, iat |-> t, sig |-> "bad"]}

\* the accessToken cookie and the Authorization header of a request
Credentials(t) ==
    {<<c, Undefined>> : c \in TokensAt("access", t) \cup {Undefined}}
    \cup {<<Undefined, h>> : h \in TokensAt("access", t)}
    \cup {<<jwtSign("access", i, t), jwtSign("access", j, t)>> : i \in Ids, j \in Ids}

(* ------------------------------ documents ------------------------------ *)
UserIds == DOMAIN users

Exists(id) == id \in UserIds

\* User.findOne({$or: [{username}, {email}]}): first match in natural order
Matches(us, username, email) ==
    {i \in DOMAIN us :
        \/ (username # "" /\ us[i].username = Normalize(username))
        \/ (email # "" /\ us[i].email = Normalize(email))}

Min(S) == CHOOSE x \in S : \A y \in S : x <= y

findOne(us, username, email) ==
    IF Matches(us, username, email) = {} THEN 0
    ELSE Min(Matches(us, username, email))

\* the collection without its unique indexes
DuplicateKey_NoIndex(us, self, username, email) == FALSE

\* the unique indexes on username and email (unique: true)
DuplicateKey(us, self, username, email) ==
    \E i \in DOMAIN us :
        /\ i # self
        /\ (us[i].username = username \/ us[i].email = email)

(* ------------------------------ responses ------------------------------ *)
\* status: response.status(..); code: the statusCode of the JSON envelope;
\* writes: how many times the handler calls response.json on this path
Resp(op, status, code, path) ==
    [op |-> op, status |-> status, code |-> code, path |-> path, uid |-> 0,
     accessToken |-> Undefined, refreshToken |-> Undefined, data |-> <<>>,
     writes |-> 1]

\* what is kept of the last response: everything but the token strings
Summary(resp) ==
    [op |-> resp.op, status |-> resp.status, code |-> resp.code,
     path |-> resp.path, uid |-> resp.uid]

NoResponse == Summary(Resp("none", 0, 0, "none"))

Out(us, cl, nxt, resp) ==
    [users |-> us, cloud |-> cl, nextAsset |-> nxt, videos |-> videos,
     nextVideo |-> nextVideo, subs |-> subs, comments |-> comments,
     tweets |-> tweets, playlists |-> playlists, likes |-> likes,
     nextDoc |-> nextDoc, resp |-> resp]

Same(resp) == Out(users, cloud, nextAsset, resp)

(* ---------------------------- media delegate --------------------------- *)
\* the local temp files multer can have written
Paths == {"temp1", "temp2"}

\* uploadOnCloudinary leaving the temp file behind when the transfer fails
uploadLocalFile_KeepsOnFailure(localFilePath, transferOk, disk, cl, nxt) ==
    IF localFilePath = ""
    THEN [publicId |-> NoAsset, cloud |-> cl, nextAsset |-> nxt, disk |-> disk,
          raised |-> FALSE]
    ELSE IF localFilePath \in disk /\ transferOk
    THEN [publicId |-> nxt, cloud |-> cl \cup {nxt}, nextAsset |-> nxt + 1,
          disk |-> disk \ {localFilePath}, raised |-> FALSE]
    ELSE [publicId |-> NoAsset, cloud |-> cl, nextAsset |-> nxt, disk |-> disk,
          raised |-> FALSE]

\* uploadOnCloudinary with the local disk: null without a path; the transfer
\* and fs.unlinkSync inside try; in catch fs.unlinkSync again and null.
\* The transfer of a file that is not there fails, and fs.unlinkSync of a
\* file that is not there raises, in catch out of the function
uploadLocalFile(localFilePath, transferOk, disk, cl, nxt) ==
    IF localFilePath = ""
    THEN [publicId |-> NoAsset, cloud |-> cl, nextAsset |-> nxt, disk |-> disk,
          raised |-> FALSE]
    ELSE IF localFilePath \in disk /\ transferOk
    THEN [publicId |-> nxt, cloud |-> cl \cup {nxt}, nextAsset |-> nxt + 1,
          disk |-> disk \ {localFilePath}, raised |-> FALSE]
    ELSE [publicId |-> NoAsset, cloud |-> cl, nextAsset |-> nxt,
          disk |-> disk \ {localFilePath}, raised |-> localFilePath \notin disk]

\* uploadOnCloudinary as the handlers call it, with the path of a file that
\* multer has written, or without a path: null without a path or when the
\* transfer fails, otherwise a new remote asset
uploadOnCloudinary(hasFile, transferOk, cl, nxt) ==
    LET r == uploadLocalFile(IF hasFile THEN "temp1" ELSE "", transferOk,
                             {"temp1"}, cl, nxt)
    IN  [publicId |-> r.publicId, cloud |-> r.cloud, nextAsset |-> r.nextAsset]

\* removeFromCloudinary letting a rejected destroy escape
removeFromCloudinary_Rethrows(publicId, cl, destroyOk) ==
    [cloud |-> IF destroyOk THEN cl \ {publicId} ELSE cl, raised |-> ~destroyOk]

\* removeFromCloudinary: cloudinary.uploader.destroy inside try/catch; the
\* asset is gone when the destroy succeeds, a rejected destroy is logged
removeFromCloudinary(publicId, cl, destroyOk) ==
    [cloud |-> IF destroyOk THEN cl \ {publicId} ELSE cl, raised |-> FALSE]

(* ------------------------------ registerUser --------------------------- *)
NewUser(username, email, fullName, password, avatar, coverImage) ==
    preSave([username |-> Normalize(username),
             email |-> Normalize(email),
             fullName |-> fullName,
             password |-> Plain(password),
             avatar |-> avatar,
             coverImage |-> coverImage,
             isVerifiedEmail |-> FALSE,
             refreshToken |-> Undefined,
             emailToken |-> Undefined], TRUE)

\* lines 107-162: the uploads, User.create, the email token and the response
registerCreate(username, email, fullName, password, hasCover, avatarOk, coverOk) ==
    LET a == uploadOnCloudinary(TRUE, avatarOk, cloud, nextAsset)
        c == uploadOnCloudinary(hasCover, coverOk, a.cloud, a.nextAsset)
        id == Len(users) + 1
        doc == NewUser(username, email, fullName, password, a.publicId, c.publicId)
    IN  IF a.publicId = NoAsset
        THEN Out(users, c.cloud, c.nextAsset,
                 Resp("registerUser", 500, 500, "avatarUpload"))
        ELSE IF DuplicateKey(users, 0, doc.username, doc.email)
        THEN Out(users, c.cloud, c.nextAsset,
                 Resp("registerUser", 500, 500, "thrown"))
        ELSE Out(Append(users, [doc EXCEPT !.emailToken = generateEmailToken(id, now)]),
                 c.cloud, c.nextAsset,
                 [Resp("registerUser", 201, 201, "ok") EXCEPT !.uid = id])

\* lines 59-105: validation, the existence query and the avatar check; the
\* response it returns, or Pass when the handler goes on to the uploads
Pass == Resp("registerUser", 0, 0, "pass")

registerCheck(username, email, fullName, password, hasAvatar) ==
    IF username = "" \/ email = "" \/ fullName = "" \/ password = ""
    THEN Resp("registerUser", 400, 400, "missingField")
    ELSE IF ~validateEmail(email)
    THEN Resp("registerUser", 400, 400, "invalidEmail")
    ELSE IF findOne(users, username, email) # 0
    THEN Resp("registerUser", 401, 401, "existedUser")
    ELSE IF ~hasAvatar
    THEN Resp("registerUser", 400, 400, "noAvatar")
    ELSE Pass

\* the handler run without another request in between
registerUser(username, email, fullName, password, hasAvatar, hasCover, avatarOk, coverOk) ==
    IF registerCheck(username, email, fullName, password, hasAvatar) # Pass
    THEN Same(registerCheck(username, email, fullName, password, hasAvatar))
    ELSE registerCreate(username, email, fullName, password, hasCover, avatarOk, coverOk)

(* ----------------------------- asyncHandler ---------------------------- *)
\* an error thrown out of a handler reaches the request boundary and is
\* answered with the error's status
Thrown(op, statusCode) == Resp(op, statusCode, statusCode, "thrown")

(* ------------------------------- verifyJWT ----------------------------- *)
\* request.cookies?.accessToken || request.header("Authorization")
\* the guard reading the Authorization header before the cookie
Extract_HeaderFirst(cookie, header) == IF ~Falsy(header) THEN header ELSE cookie

Extract(cookie, header) == IF ~Falsy(cookie) THEN cookie ELSE header

\* the guard with jwt.decode in the place of jwt.verify
verifyJWT_DecodeOnly(cookie, header) ==
    IF Falsy(Extract(cookie, header)) \/ ~Exists(Extract(cookie, header)._id)
    THEN 0
    ELSE Extract(cookie, header)._id

\* the account attached to the request, or 0 when the guard answers 401
verifyJWT(cookie, header) ==
    LET accessToken == Extract(cookie, header)
    IN  IF Falsy(accessToken) THEN 0
        ELSE IF ~jwtVerify(accessToken, "access", now) THEN 0
        ELSE IF ~Exists(accessToken._id) THEN 0
        ELSE accessToken._id

Unauthorized(op) == Resp(op, 401, 401, "verifyJWT")

(* --------------------- generateAccessAndRefreshToken ------------------- *)
generateAccessAndRefreshToken(us, userId, t) ==
    IF userId \notin DOMAIN us
    THEN [ok |-> FALSE, users |-> us,
          accessToken |-> Undefined, refreshToken |-> Undefined]
    ELSE [ok |-> TRUE,
          users |-> [us EXCEPT ![userId] =
                        preSave([@ EXCEPT !.refreshToken = generateRefreshToken(userId, t)],
                                FALSE)],
          accessToken |-> generateAccessToken(userId, t),
          refreshToken |-> generateRefreshToken(userId, t)]

(* ------------------------------ confirmEmail --------------------------- *)
verifyEmailToken(emailToken) == jwtVerify(emailToken, "email", now)

\* the flag set, the stored token kept
MarkVerified_KeepsToken(us, id) ==
    [us EXCEPT ![id] = preSave([@ EXCEPT !.isVerifiedEmail = TRUE], FALSE)]

\* lines 200-202
MarkVerified(us, id) ==
    [us EXCEPT ![id] = preSave([@ EXCEPT !.isVerifiedEmail = TRUE,
                                         !.emailToken = EmptyString], FALSE)]

confirmEmail(emailToken) ==
    IF Falsy(emailToken)
    THEN Same(Resp("confirmEmail", 400, 400, "noToken"))
    ELSE IF ~verifyEmailToken(emailToken)
    THEN Same(Thrown("confirmEmail", 401))
    ELSE IF ~Exists(emailToken._id)
    THEN Same(Resp("confirmEmail", 401, 401, "noUser"))
    ELSE IF users[emailToken._id].isVerifiedEmail
    THEN Same([Resp("confirmEmail", 400, 401, "alreadyVerified")
                  EXCEPT !.uid = emailToken._id])
    ELSE IF emailToken # users[emailToken._id].emailToken
    THEN \* the 401 is written without a return: the handler goes on to the
         \* save and to the response of the success path
         Out(MarkVerified(users, emailToken._id), cloud, nextAsset,
             [Resp("confirmEmail", 401, 401, "mismatch")
                 EXCEPT !.uid = emailToken._id, !.writes = 2])
    ELSE Out(MarkVerified(users, emailToken._id), cloud, nextAsset,
             [Resp("confirmEmail", 201, 200, "ok") EXCEPT !.uid = emailToken._id])

(* ------------------------------- loginUser ----------------------------- *)
loginUser(us, email, username, password) ==
    IF email = "" /\ username = ""
    THEN Out(us, cloud, nextAsset, Resp("loginUser", 400, 400, "noIdentifier"))
    ELSE IF email # "" /\ ~validateEmail(email)
    THEN Out(us, cloud, nextAsset, Resp("loginUser", 400, 400, "invalidEmail"))
    ELSE IF password = ""
    THEN Out(us, cloud, nextAsset, Resp("loginUser", 400, 400, "noPassword"))
    ELSE LET id == findOne(us, username, email)
         IN  IF id = 0
             THEN Out(us, cloud, nextAsset, Resp("loginUser", 404, 404, "noUser"))
             ELSE IF ~isPasswordCorrect(us[id], password)
             THEN Out(us, cloud, nextAsset,
                      [Resp("loginUser", 401, 401, "wrongPassword") EXCEPT !.uid = id])
             ELSE LET g == generateAccessAndRefreshToken(us, id, now)
                  IN  Out(g.users, cloud, nextAsset,
                          [Resp("loginUser", 200, 200, "ok")
                              EXCEPT !.uid = id,
                                     !.accessToken = g.accessToken,
                                     !.refreshToken = g.refreshToken])

(* ------------------------------- logoutUser ---------------------------- *)
\* user: request.user._id, attached by the guard
logoutUser(user) ==
    Out([users EXCEPT ![user].refreshToken = Undefined], cloud, nextAsset,
        [Resp("logoutUser", 200, 200, "ok") EXCEPT !.uid = user])

(* --------------------------- refreshAccessToken ------------------------ *)
\* request.cookies?.refreshToken || request.body.refreshToken
Incoming(cookieToken, bodyToken) ==
    IF ~Falsy(cookieToken) THEN cookieToken ELSE bodyToken

\* the comparison with the stored token left out
RefreshTokenDiffers_Never(incomingRefreshToken, doc) == FALSE

\* line 343: incomingRefreshToken !== user.refreshToken
RefreshTokenDiffers(incomingRefreshToken, doc) ==
    incomingRefreshToken # doc.refreshToken

\* refreshAccessToken up to and including the comparison with the stored
\* token: a 401 answered, or nothing answered yet ("match"), or the 401 of the
\* comparison written without a return ("mismatch"); uid is the account read
refreshFind(cookieToken, bodyToken) ==
    LET incomingRefreshToken == Incoming(cookieToken, bodyToken)
        id == incomingRefreshToken._id
    IN  IF Falsy(incomingRefreshToken)
        THEN Resp("refreshAccessToken", 401, 401, "noToken")
        ELSE IF ~jwtVerify(incomingRefreshToken, "refresh", now)
        THEN Resp("refreshAccessToken", 401, 401, "verifyFailed")
        ELSE IF ~Exists(id)
        THEN Resp("refreshAccessToken", 401, 401, "noUser")
        ELSE IF RefreshTokenDiffers(incomingRefreshToken, users[id])
        THEN [Resp("refreshAccessToken", 0, 0, "mismatch") EXCEPT !.uid = id]
        ELSE [Resp("refreshAccessToken", 0, 0, "match") EXCEPT !.uid = id]

\* refreshAccessToken from there on: generateAccessAndRefreshToken and the
\* 200. After a mismatch the 401 is already written: the handler still
\* generates and stores a pair, its 200 is refused, and so is the 401 of the
\* catch block that the refusal leads to
refreshWrite(id, seen) ==
    LET g == generateAccessAndRefreshToken(users, id, now)
    IN  IF seen = "mismatch"
        THEN Out(g.users, cloud, nextAsset,
                 [Resp("refreshAccessToken", 401, 401, "mismatch")
                     EXCEPT !.uid = id, !.writes = 3])
        ELSE Out(g.users, cloud, nextAsset,
                 [Resp("refreshAccessToken", 200, 200, "ok")
                     EXCEPT !.uid = id,
                            !.accessToken = g.accessToken,
                            !.refreshToken = g.refreshToken])

refreshAccessToken(cookieToken, bodyToken) ==
    LET found == refreshFind(cookieToken, bodyToken)
    IN  IF found.status # 0 THEN Same(found)
        ELSE refreshWrite(found.uid, found.path)

(* -------------------------- updateAccountDetails ----------------------- *)
updateAccountDetails(user, email, fullName) ==
    IF email = "" \/ fullName = ""
    THEN Same(Resp("updateAccountDetails", 400, 400, "missingField"))
    ELSE IF ~validateEmail(email)
    THEN Same(Resp("updateAccountDetails", 400, 400, "invalidEmail"))
    ELSE IF DuplicateKey(users, user, users[user].username, Normalize(email))
    THEN Same(Thrown("updateAccountDetails", 500))
    ELSE Out([users EXCEPT ![user].fullName = fullName,
                           ![user].email = Normalize(email)],
             cloud, nextAsset,
             [Resp("updateAccountDetails", 200, 200, "ok") EXCEPT !.uid = user])

(* ----------------- updateUserAvatar, updateUserCoverImage --------------- *)
\* the replacement removing the previous asset before it looks at the upload
updateUserImage_RemovesFirst(op, field, user, file, destroyOk) ==
    LET new == uploadOnCloudinary(TRUE, file = "stored", cloud, nextAsset)
        cl == removeFromCloudinary(users[user][field], new.cloud, destroyOk).cloud
    IN  IF file = "none"
        THEN Same(Resp(op, 400, 400, "noFile"))
        ELSE IF new.publicId = NoAsset
        THEN Out(users, cl, new.nextAsset, Thrown(op, 500))
        ELSE Out([users EXCEPT ![user][field] = new.publicId], cl, new.nextAsset,
                 Resp(op, 200, 200, "ok"))

\* the two handlers differ in the field and the messages only. The upload's
\* result is dereferenced unguarded (avatar.url): null, the result of a failed
\* upload, raises there and the own 500 answer is never reached
updateUserImage(op, field, user, file, destroyOk) ==
    LET new == uploadOnCloudinary(TRUE, file = "stored", cloud, nextAsset)
        old == users[user][field]
        cl == IF old # NoAsset
              THEN removeFromCloudinary(old, new.cloud, destroyOk).cloud
              ELSE new.cloud
    IN  IF file = "none"
        THEN Same(Resp(op, 400, 400, "noFile"))
        ELSE IF new.publicId = NoAsset
        THEN Same(Thrown(op, 500))
        ELSE Out([users EXCEPT ![user][field] = new.publicId], cl, new.nextAsset,
                 Resp(op, 200, 200, "ok"))

updateUserAvatar(user, file, destroyOk) ==
    updateUserImage("updateUserAvatar", "avatar", user, file, destroyOk)

updateUserCoverImage(user, file, destroyOk) ==
    updateUserImage("updateUserCoverImage", "coverImage", user, file, destroyOk)

(* ----------------------------- changePassword -------------------------- *)
\* changePassword without the comparison of the old password
changePassword_Unchecked(user, oldPassword, newPassword) ==
    IF oldPassword = "" \/ newPassword = ""
    THEN Same(Resp("changePassword", 400, 400, "missingField"))
    ELSE Out([users EXCEPT ![user] =
                 preSave([@ EXCEPT !.password = Plain(newPassword)], TRUE)],
             cloud, nextAsset,
             [Resp("changePassword", 200, 200, "ok") EXCEPT !.uid = user])

\* user: request.user._id, attached by the guard
changePassword(user, oldPassword, newPassword) ==
    IF oldPassword = "" \/ newPassword = ""
    THEN Same(Resp("changePassword", 400, 400, "missingField"))
    ELSE IF ~isPasswordCorrect(users[user], oldPassword)
    THEN Same([Resp("changePassword", 400, 400, "wrongOldPassword") EXCEPT !.uid = user])
    ELSE Out([users EXCEPT ![user] =
                 preSave([@ EXCEPT !.password = Plain(newPassword)], TRUE)],
             cloud, nextAsset,
             [Resp("changePassword", 200, 200, "ok") EXCEPT !.uid = user])

(* ------------------------------- user routes --------------------------- *)
\* the routes of the user router that sit behind the guard; body is
\* <<email, fullName>>
userRouter(route, cookie, header, body) ==
    LET user == verifyJWT(cookie, header)
    IN  IF user = 0 THEN Same(Unauthorized(route))
        ELSE CASE route = "logoutUser" -> logoutUser(user)
               [] route = "updateAccountDetails" ->
                    updateAccountDetails(user, body[1], body[2])

(* ------------------------------ video routes --------------------------- *)
isValidObjectId(id) == id # 0

VideoOut(vs, nv, cl, nxt, resp) ==
    [Same(resp) EXCEPT !.videos = vs, !.nextVideo = nv, !.cloud = cl,
                       !.nextAsset = nxt]

\* Video.create; the published flag is the schema's default
Insert(vs, id, doc) ==
    [i \in DOMAIN vs \cup {id} |-> IF i = id THEN doc ELSE vs[i]]

\* Video.deleteOne
Delete(vs, id) == [i \in DOMAIN vs \ {id} |-> vs[i]]

publishAVideo(user, title, description, videoFile, thumbnail, published) ==
    IF title = "" \/ description = ""
    THEN Same(Resp("publishAVideo", 400, 400, "missingField"))
    ELSE IF videoFile = "none" \/ thumbnail = "none"
    THEN Same(Resp("publishAVideo", 400, 400, "noFiles"))
    ELSE LET v == uploadOnCloudinary(TRUE, videoFile = "stored", cloud, nextAsset)
             t == uploadOnCloudinary(TRUE, thumbnail = "stored", v.cloud, v.nextAsset)
         IN  IF v.publicId = NoAsset \/ t.publicId = NoAsset
             THEN VideoOut(videos, nextVideo, t.cloud, t.nextAsset,
                           Resp("publishAVideo", 500, 500, "uploadFailed"))
             ELSE VideoOut(Insert(videos, nextVideo,
                                  [owner |-> user, title |-> title,
                                   description |-> description,
                                   isPublished |-> published,
                                   videoFile |-> v.publicId,
                                   thumbnail |-> t.publicId]),
                           nextVideo + 1, t.cloud, t.nextAsset,
                           Resp("publishAVideo", 201, 201, "ok"))

\* the listing pipeline: owner filter, text filter, join to the owner
Listed(hasUserId, userId, query) ==
    {i \in DOMAIN videos :
        /\ hasUserId => videos[i].owner = userId
        /\ query # "" => (videos[i].title = query \/ videos[i].description = query)
        /\ Exists(videos[i].owner)}

getAllVideos(hasUserId, userId, query) ==
    IF hasUserId /\ ~isValidObjectId(userId)
    THEN Same(Resp("getAllVideos", 400, 400, "invalidId"))
    ELSE IF Listed(hasUserId, userId, query) = {}
    THEN Same(Resp("getAllVideos", 404, 404, "noVideo"))
    ELSE Same(Resp("getAllVideos", 200, 200, "ok"))

getVideoById(videoId) ==
    IF ~isValidObjectId(videoId)
    THEN Same(Resp("getVideoById", 400, 400, "invalidId"))
    ELSE IF videoId \notin DOMAIN videos \/ ~Exists(videos[videoId].owner)
    THEN Same(Resp("getVideoById", 404, 404, "noVideo"))
    ELSE Same(Resp("getVideoById", 200, 200, "ok"))

updateVideo(user, videoId, title, description) ==
    IF ~isValidObjectId(videoId)
    THEN Same(Resp("updateVideo", 400, 400, "invalidId"))
    ELSE IF title = "" \/ description = ""
    THEN Same(Resp("updateVideo", 400, 400, "missingField"))
    ELSE IF videoId \notin DOMAIN videos
    THEN Same(Resp("updateVideo", 404, 404, "noVideo"))
    ELSE IF videos[videoId].owner # user
    THEN Same(Resp("updateVideo", 401, 401, "notOwner"))
    ELSE VideoOut([videos EXCEPT ![videoId].title = title,
                                 ![videoId].description = description],
                  nextVideo, cloud, nextAsset, Resp("updateVideo", 200, 200, "ok"))

updateVideoThumbnail(user, videoId, thumbnail) ==
    IF ~isValidObjectId(videoId)
    THEN Same(Resp("updateVideoThumbnail", 400, 400, "invalidId"))
    ELSE IF thumbnail = "none"
    THEN Same(Resp("updateVideoThumbnail", 400, 400, "noFile"))
    ELSE IF videoId \notin DOMAIN videos
    THEN Same(Resp("updateVideoThumbnail", 404, 404, "noVideo"))
    ELSE IF videos[videoId].owner # user
    THEN Same(Resp("updateVideoThumbnail", 401, 401, "notOwner"))
    ELSE LET t == uploadOnCloudinary(TRUE, thumbnail = "stored", cloud, nextAsset)
             cl == removeFromCloudinary(videos[videoId].thumbnail, t.cloud, TRUE).cloud
         IN  IF t.publicId = NoAsset
             THEN VideoOut(videos, nextVideo, cl, t.nextAsset,
                           Resp("updateVideoThumbnail", 500, 500, "uploadFailed"))
             ELSE VideoOut([videos EXCEPT ![videoId].thumbnail = t.publicId],
                           nextVideo, cl, t.nextAsset,
                           Resp("updateVideoThumbnail", 200, 200, "ok"))

\* deleteVideo removing the remote assets and keeping the document
deleteVideo_KeepsDocument(user, videoId) ==
    IF ~isValidObjectId(videoId)
    THEN Same(Resp("deleteVideo", 400, 400, "invalidId"))
    ELSE IF videoId \notin DOMAIN videos
    THEN Same(Resp("deleteVideo", 404, 404, "noVideo"))
    ELSE IF videos[videoId].owner # user
    THEN Same(Resp("deleteVideo", 401, 401, "notOwner"))
    ELSE VideoOut(videos, nextVideo,
                  removeFromCloudinary(videos[videoId].thumbnail,
                      removeFromCloudinary(videos[videoId].videoFile, cloud, TRUE).cloud,
                      TRUE).cloud,
                  nextAsset, Resp("deleteVideo", 200, 200, "ok"))

\* the two removals are awaited one after the other, whatever became of
\* them the document is deleted and the answer is 200
deleteVideoWith(user, videoId, fileOk, thumbnailOk) ==
    IF ~isValidObjectId(videoId)
    THEN Same(Resp("deleteVideo", 400, 400, "invalidId"))
    ELSE IF videoId \notin DOMAIN videos
    THEN Same(Resp("deleteVideo", 404, 404, "noVideo"))
    ELSE IF videos[videoId].owner # user
    THEN Same(Resp("deleteVideo", 401, 401, "notOwner"))
    ELSE LET f == removeFromCloudinary(videos[videoId].videoFile, cloud, fileOk)
             t == removeFromCloudinary(videos[videoId].thumbnail, f.cloud, thumbnailOk)
         IN  IF f.raised
             THEN VideoOut(videos, nextVideo, f.cloud, nextAsset,
                           Thrown("deleteVideo", 500))
             ELSE IF t.raised
             THEN VideoOut(videos, nextVideo, t.cloud, nextAsset,
                           Thrown("deleteVideo", 500))
             ELSE VideoOut(Delete(videos, videoId), nextVideo, t.cloud, nextAsset,
                           Resp("deleteVideo", 200, 200, "ok"))

\* deleteVideo when both removals succeed
deleteVideo(user, videoId) == deleteVideoWith(user, videoId, TRUE, TRUE)

togglePublishStatus(user, videoId) ==
    IF ~isValidObjectId(videoId)
    THEN Same(Resp("togglePublishStatus", 400, 400, "invalidId"))
    ELSE IF videoId \notin DOMAIN videos
    THEN Same(Resp("togglePublishStatus", 404, 404, "noVideo"))
    ELSE IF videos[videoId].owner # user
    THEN Same(Resp("togglePublishStatus", 401, 401, "notOwner"))
    ELSE VideoOut([videos EXCEPT ![videoId].isPublished = ~@], nextVideo, cloud,
                  nextAsset, Resp("togglePublishStatus", 200, 200, "ok"))

VideoRoutes ==
    {"getAllVideos", "publishAVideo", "getVideoById", "deleteVideo", "updateVideo",
     "updateVideoThumbnail", "togglePublishStatus"}

\* router.use(verifyJWT) in front of the route table
videoRouter(route, cookie, header, req) ==
    LET user == verifyJWT(cookie, header)
    IN  IF user = 0 THEN Same(Unauthorized(route))
        ELSE CASE route = "getAllVideos" ->
                    getAllVideos(req.hasUserId, req.userId, req.query)
               [] route = "publishAVideo" ->
                    publishAVideo(user, req.title, req.description, req.videoFile,
                                  req.thumbnail, req.published)
               [] route = "getVideoById" -> getVideoById(req.videoId)
               [] route = "deleteVideo" -> deleteVideo(user, req.videoId)
               [] route = "updateVideo" ->
                    updateVideo(user, req.videoId, req.title, req.description)
               [] route = "updateVideoThumbnail" ->
                    updateVideoThumbnail(user, req.videoId, req.thumbnail)
               [] route = "togglePublishStatus" ->
                    togglePublishStatus(user, req.videoId)

(* --------------------------- subscription routes ----------------------- *)
SubsOut(sb, resp) == [Same(resp) EXCEPT !.subs = sb]

\* the subscriptions collection without a unique index
EdgeDuplicateKey_NoIndex(copies) == FALSE

\* the unique index of an edge collection on its pair: a second document for
\* the pair is refused
EdgeDuplicateKey(copies) == copies > 0

\* toggleSubscription up to and including Subscription.findOne: an answer, or
\* what the query saw of the edge ("absent" or "found") with nothing answered
subscriptionFind(user, channelId) ==
    IF ~isValidObjectId(channelId)
    THEN Resp("toggleSubscription", 400, 400, "invalidId")
    ELSE IF ~Exists(channelId)
    THEN Resp("toggleSubscription", 404, 404, "noChannel")
    ELSE IF subs[<<user, channelId>>] = 0
    THEN Resp("toggleSubscription", 0, 0, "absent")
    ELSE Resp("toggleSubscription", 0, 0, "found")

\* toggleSubscription from there on: Subscription.create when the query saw
\* no edge, Subscription.deleteOne of the document it saw otherwise; seen is
\* "gone" when that document has been deleted since
subscriptionWrite_KeepsEdge(user, channelId, seen) ==
    IF seen = "absent"
    THEN IF EdgeDuplicateKey(subs[<<user, channelId>>])
         THEN Same(Thrown("toggleSubscription", 500))
         ELSE SubsOut([subs EXCEPT ![<<user, channelId>>] = @ + 1],
                      Resp("toggleSubscription", 200, 200, "subscribed"))
    ELSE IF seen = "gone"
    THEN Same(Resp("toggleSubscription", 500, 500, "notDeleted"))
    ELSE Same(Resp("toggleSubscription", 200, 200, "unsubscribed"))

subscriptionWrite(user, channelId, seen) ==
    IF seen = "absent"
    THEN IF EdgeDuplicateKey(subs[<<user, channelId>>])
         THEN Same(Thrown("toggleSubscription", 500))
         ELSE SubsOut([subs EXCEPT ![<<user, channelId>>] = @ + 1],
                      Resp("toggleSubscription", 200, 200, "subscribed"))
    ELSE IF seen = "gone"
    THEN Same(Resp("toggleSubscription", 500, 500, "notDeleted"))
    ELSE SubsOut([subs EXCEPT ![<<user, channelId>>] = @ - 1],
                 Resp("toggleSubscription", 200, 200, "unsubscribed"))

toggleSubscription(user, channelId) ==
    LET found == subscriptionFind(user, channelId)
    IN  IF found.status # 0 THEN Same(found)
        ELSE subscriptionWrite(user, channelId, found.path)

\* the list a subscription aggregate answers with: per account joined to an
\* edge of the caller, the number of entries for it
Joined(copies) ==
    [id \in {i \in UserIds : copies[i] > 0} |-> copies[id]]

getUserChannelSubscribers(user) ==
    Same([Resp("getUserChannelSubscribers", 200, 200, "ok") EXCEPT
            !.data = Joined([subscriber \in UserIds |-> subs[<<subscriber, user>>]])])

getSubscribedChannels(user) ==
    Same([Resp("getSubscribedChannels", 200, 200, "ok") EXCEPT
            !.data = Joined([channel \in UserIds |-> subs[<<user, channel>>]])])

(* -------------------------- getUserChannelProfile ---------------------- *)
\* "$<array>.<name>": the values of that field in the subscription documents,
\* each a {subscriber, channel} pair; a field they do not have yields nothing
Field(pairs, name) ==
    CASE name = "subscriber" -> {pair[1] : pair \in pairs}
      [] name = "channel" -> {pair[2] : pair \in pairs}
      [] OTHER -> {}

\* $size of a $lookup into subscriptions: the number of documents among pairs
Size(pairs) ==
    LET RECURSIVE Sum(_)
        Sum(left) == IF left = {} THEN 0
                     ELSE LET pair == CHOOSE p \in left : TRUE
                          IN  subs[pair] + Sum(left \ {pair})
    IN  Sum(pairs)

\* user: request.user, attached by the guard
getUserChannelProfile(user, username) ==
    IF username = ""
    THEN Same(Resp("getUserChannelProfile", 400, 400, "noUsername"))
    ELSE LET channel == {id \in UserIds : users[id].username = Normalize(username)}
         IN  IF channel = {}
             THEN Same(Resp("getUserChannelProfile", 404, 404, "noChannel"))
             ELSE LET id == Min(channel)
                      subscribers == {pair \in DOMAIN subs :
                                        pair[2] = id /\ subs[pair] > 0}
                      subscribedTo == {pair \in DOMAIN subs :
                                         pair[1] = id /\ subs[pair] > 0}
                  IN  Same([Resp("getUserChannelProfile", 200, 200, "ok") EXCEPT
                              !.uid = id,
                              !.data = <<[subscriberCount |-> Size(subscribers),
                                          channelsSubscribedToCount |->
                                              Size(subscribedTo),
                                          isSubscribed |->
                                              user \in Field(subscribers,
                                                             "subscribe")]>>])

SubscriptionRoutes ==
    {"getSubscribedChannels", "toggleSubscription", "getUserChannelSubscribers"}

subscriptionRouter(route, cookie, header, req) ==
    LET user == verifyJWT(cookie, header)
    IN  IF user = 0 THEN Same(Unauthorized(route))
        ELSE CASE route = "getSubscribedChannels" -> getSubscribedChannels(user)
               [] route = "toggleSubscription" ->
                    toggleSubscription(user, req.channelId)
               [] route = "getUserChannelSubscribers" ->
                    getUserChannelSubscribers(user)

(* ------------------------------ like routes ---------------------------- *)
LikesOut(ls, resp) == [Same(resp) EXCEPT !.likes = ls]

\* the collection a like of this kind refers to
Targets(kind) ==
    CASE kind = "video" -> videos
      [] kind = "comment" -> comments
      [] kind = "tweet" -> tweets

ToggleOp(kind) ==
    CASE kind = "video" -> "toggleVideoLike"
      [] kind = "comment" -> "toggleCommentLike"
      [] kind = "tweet" -> "toggleTweetLike"

\* a like document with every reference set
LikeDoc_AllTargets(kind, user, targetId) ==
    [likedBy |-> user, video |-> targetId, comment |-> targetId, tweet |-> targetId]

\* a like document as Like.create({video | comment | tweet, likedBy}) makes it;
\* 0 stands for a reference that is not set
LikeDoc(kind, user, targetId) ==
    [likedBy |-> user,
     video |-> IF kind = "video" THEN targetId ELSE 0,
     comment |-> IF kind = "comment" THEN targetId ELSE 0,
     tweet |-> IF kind = "tweet" THEN targetId ELSE 0]

\* the documents Like.findOne({$and: [{<kind>: id}, {likedBy}]}) matches
Liked(ls, kind, user, targetId) ==
    {doc \in BagToSet(ls) :
        /\ doc.likedBy = user
        /\ (CASE kind = "video" -> doc.video
              [] kind = "comment" -> doc.comment
              [] kind = "tweet" -> doc.tweet) = targetId}

\* the number of like documents of this account for this target
Likes(ls, kind, user, targetId) ==
    LET RECURSIVE Sum(_)
        Sum(docs) == IF docs = {} THEN 0
                     ELSE LET doc == CHOOSE d \in docs : TRUE
                          IN  CopiesIn(doc, ls) + Sum(docs \ {doc})
    IN  Sum(Liked(ls, kind, user, targetId))

\* a like toggle up to and including Like.findOne
likeFind(kind, user, targetId) ==
    IF ~isValidObjectId(targetId)
    THEN Resp(ToggleOp(kind), 400, 400, "invalidId")
    ELSE IF targetId \notin DOMAIN Targets(kind)
    THEN Resp(ToggleOp(kind), 404, 404, "noTarget")
    ELSE IF Liked(likes, kind, user, targetId) = {}
    THEN Resp(ToggleOp(kind), 0, 0, "absent")
    ELSE Resp(ToggleOp(kind), 0, 0, "found")

\* a like toggle from there on: Like.create, or Like.deleteOne of the
\* document the query saw
likeWrite(kind, user, targetId, seen) ==
    IF seen = "absent"
    THEN IF EdgeDuplicateKey(Likes(likes, kind, user, targetId))
         THEN Same(Thrown(ToggleOp(kind), 500))
         ELSE LikesOut(likes (+) SetToBag({LikeDoc(kind, user, targetId)}),
                       Resp(ToggleOp(kind), 200, 200, "liked"))
    ELSE IF seen = "gone" \/ Liked(likes, kind, user, targetId) = {}
    THEN Same(Resp(ToggleOp(kind), 500, 500, "notDeleted"))
    ELSE LikesOut(likes (-) SetToBag({CHOOSE doc \in Liked(likes, kind, user, targetId) : TRUE}),
                  Resp(ToggleOp(kind), 200, 200, "unliked"))

toggleLike(kind, user, targetId) ==
    LET found == likeFind(kind, user, targetId)
    IN  IF found.status # 0 THEN Same(found)
        ELSE likeWrite(kind, user, targetId, found.path)

toggleVideoLike(user, videoId) == toggleLike("video", user, videoId)

toggleCommentLike(user, commentId) == toggleLike("comment", user, commentId)

toggleTweetLike(user, tweetId) == toggleLike("tweet", user, tweetId)

\* the videos the aggregate of getLikedVideos yields: per video that still
\* exists, with its owner, the number of like documents of the caller for it
LikedVideos(user) ==
    [videoId \in {v \in DOMAIN videos :
                    /\ Likes(likes, "video", user, v) > 0
                    /\ Exists(videos[v].owner)} |-> Likes(likes, "video", user, videoId)]

getLikedVideos(user) ==
    IF DOMAIN LikedVideos(user) = {}
    THEN Same(Resp("getLikedVideos", 404, 404, "noVideo"))
    ELSE Same([Resp("getLikedVideos", 200, 200, "ok") EXCEPT
                  !.data = LikedVideos(user)])

(* ----------------------------- comment routes -------------------------- *)
CommentsOut(cs, nd, resp) == [Same(resp) EXCEPT !.comments = cs, !.nextDoc = nd]

getVideoComments(videoId) ==
    IF ~isValidObjectId(videoId)
    THEN Same(Resp("getVideoComments", 400, 400, "invalidId"))
    ELSE IF videoId \notin DOMAIN videos
    THEN Same(Resp("getVideoComments", 404, 404, "noVideo"))
    ELSE Same(Resp("getVideoComments", 200, 200, "ok"))

addComment(user, videoId, content) ==
    IF ~isValidObjectId(videoId)
    THEN Same(Resp("addComment", 400, 400, "invalidId"))
    ELSE IF content = ""
    THEN Same(Resp("addComment", 400, 400, "missingField"))
    ELSE IF videoId \notin DOMAIN videos
    THEN Same(Resp("addComment", 404, 404, "noVideo"))
    ELSE CommentsOut(Insert(comments, nextDoc,
                            [owner |-> user, video |-> videoId, content |-> content]),
                     nextDoc + 1, Resp("addComment", 201, 201, "ok"))

updateComment(user, commentId, content) ==
    IF ~isValidObjectId(commentId)
    THEN Same(Resp("updateComment", 400, 400, "invalidId"))
    ELSE IF content = ""
    THEN Same(Resp("updateComment", 400, 400, "missingField"))
    ELSE IF commentId \notin DOMAIN comments
    THEN Same(Resp("updateComment", 404, 404, "noComment"))
    ELSE IF comments[commentId].owner # user
    THEN Same(Resp("updateComment", 401, 401, "notOwner"))
    ELSE CommentsOut([comments EXCEPT ![commentId].content = content], nextDoc,
                     Resp("updateComment", 200, 200, "ok"))

deleteComment_AnyAccount(user, commentId) ==
    IF ~isValidObjectId(commentId)
    THEN Same(Resp("deleteComment", 400, 400, "invalidId"))
    ELSE IF commentId \notin DOMAIN comments
    THEN Same(Resp("deleteComment", 404, 404, "noComment"))
    ELSE CommentsOut(Delete(comments, commentId), nextDoc,
                     Resp("deleteComment", 200, 200, "ok"))

deleteComment(user, commentId) ==
    IF ~isValidObjectId(commentId)
    THEN Same(Resp("deleteComment", 400, 400, "invalidId"))
    ELSE IF commentId \notin DOMAIN comments
    THEN Same(Resp("deleteComment", 404, 404, "noComment"))
    ELSE IF comments[commentId].owner # user
    THEN Same(Resp("deleteComment", 401, 401, "notOwner"))
    ELSE CommentsOut(Delete(comments, commentId), nextDoc,
                     Resp("deleteComment", 200, 200, "ok"))

(* ------------------------------ tweet routes --------------------------- *)
TweetsOut(ts, nd, resp) == [Same(resp) EXCEPT !.tweets = ts, !.nextDoc = nd]

createTweet(user, content) ==
    IF content = ""
    THEN Same(Resp("createTweet", 400, 400, "missingField"))
    ELSE TweetsOut(Insert(tweets, nextDoc, [owner |-> user, content |-> content]),
                   nextDoc + 1, Resp("createTweet", 201, 201, "ok"))

updateTweet(user, tweetId, content) ==
    IF ~isValidObjectId(tweetId)
    THEN Same(Resp("updateTweet", 400, 400, "invalidId"))
    ELSE IF content = ""
    THEN Same(Resp("updateTweet", 400, 400, "missingField"))
    ELSE IF tweetId \notin DOMAIN tweets
    THEN Same(Resp("updateTweet", 404, 404, "noTweet"))
    ELSE IF tweets[tweetId].owner # user
    THEN Same(Resp("updateTweet", 401, 401, "notOwner"))
    ELSE TweetsOut([tweets EXCEPT ![tweetId].content = content], nextDoc,
                   Resp("updateTweet", 200, 200, "ok"))

deleteTweet(user, tweetId) ==
    IF ~isValidObjectId(tweetId)
    THEN Same(Resp("deleteTweet", 400, 400, "invalidId"))
    ELSE IF tweetId \notin DOMAIN tweets
    THEN Same(Resp("deleteTweet", 404, 404, "noTweet"))
    ELSE IF tweets[tweetId].owner # user
    THEN Same(Resp("deleteTweet", 401, 401, "notOwner"))
    ELSE TweetsOut(Delete(tweets, tweetId), nextDoc,
                   Resp("deleteTweet", 200, 200, "ok"))

(* ----------------------------- playlist routes ------------------------- *)
PlaylistsOut(ps, nd, resp) == [Same(resp) EXCEPT !.playlists = ps, !.nextDoc = nd]

\* playList.videos.some((id) => id.equals(videoId))
Includes(list, videoId) == \E i \in DOMAIN list : list[i] = videoId

\* playList.videos.filter((id) => !id.equals(videoId))
Filter(list, videoId) == SelectSeq(list, LAMBDA id : id # videoId)

createPlaylist(user, name, description) ==
    IF name = "" \/ description = ""
    THEN Same(Resp("createPlaylist", 400, 400, "missingField"))
    ELSE PlaylistsOut(Insert(playlists, nextDoc,
                             [owner |-> user, name |-> name,
                              description |-> description, videos |-> <<>>]),
                      nextDoc + 1, Resp("createPlaylist", 201, 201, "ok"))

\* data: the documents the aggregate matched; the handler sends the first
getPlaylistById(playlistId) ==
    IF ~isValidObjectId(playlistId)
    THEN Same(Resp("getPlaylistById", 400, 400, "invalidId"))
    ELSE Same([Resp("getPlaylistById", 200, 200, "ok") EXCEPT
                  !.data = IF playlistId \in DOMAIN playlists
                              /\ Exists(playlists[playlistId].owner)
                           THEN <<playlists[playlistId]>>
                           ELSE <<>>])

\* addVideoToPlaylist up to and including its membership test: an answer, or
\* nothing answered ("absent": the list read does not hold the video)
addVideoFind(user, playlistId, videoId) ==
    IF ~isValidObjectId(playlistId)
    THEN Resp("addVideoToPlaylist", 400, 400, "invalidId")
    ELSE IF ~isValidObjectId(videoId)
    THEN Resp("addVideoToPlaylist", 400, 400, "invalidVideoId")
    ELSE IF playlistId \notin DOMAIN playlists
    THEN Resp("addVideoToPlaylist", 404, 404, "noPlaylist")
    ELSE IF playlists[playlistId].owner # user
    THEN Resp("addVideoToPlaylist", 401, 401, "notOwner")
    ELSE IF videoId \notin DOMAIN videos
    THEN Resp("addVideoToPlaylist", 404, 404, "noVideo")
    ELSE IF Includes(playlists[playlistId].videos, videoId)
    THEN Resp("addVideoToPlaylist", 400, 400, "alreadyInside")
    ELSE Resp("addVideoToPlaylist", 0, 0, "absent")

\* addVideoToPlaylist from there on: playList.videos.push(video._id) and
\* playList.save(), which sends the push as an update of the stored document
\* without a condition on the list it read; save() of a document that has
\* been deleted since is rejected
addVideoSave(playlistId, videoId) ==
    IF playlistId \notin DOMAIN playlists
    THEN Same(Thrown("addVideoToPlaylist", 500))
    ELSE PlaylistsOut([playlists EXCEPT ![playlistId].videos = Append(@, videoId)],
                      nextDoc, Resp("addVideoToPlaylist", 200, 200, "ok"))

addVideoToPlaylist(user, playlistId, videoId) ==
    LET found == addVideoFind(user, playlistId, videoId)
    IN  IF found.status # 0 THEN Same(found)
        ELSE addVideoSave(playlistId, videoId)

removeVideoFromPlaylist(user, playlistId, videoId) ==
    IF ~isValidObjectId(playlistId)
    THEN Same(Resp("removeVideoFromPlaylist", 400, 400, "invalidId"))
    ELSE IF ~isValidObjectId(videoId)
    THEN Same(Resp("removeVideoFromPlaylist", 400, 400, "invalidVideoId"))
    ELSE IF playlistId \notin DOMAIN playlists
    THEN Same(Resp("removeVideoFromPlaylist", 404, 404, "noPlaylist"))
    ELSE IF playlists[playlistId].owner # user
    THEN Same(Resp("removeVideoFromPlaylist", 401, 401, "notOwner"))
    ELSE IF videoId \notin DOMAIN videos
    THEN Same(Resp("removeVideoFromPlaylist", 404, 404, "noVideo"))
    ELSE IF ~Includes(playlists[playlistId].videos, videoId)
    THEN Same(Resp("removeVideoFromPlaylist", 400, 400, "notInside"))
    ELSE PlaylistsOut([playlists EXCEPT ![playlistId].videos = Filter(@, videoId)],
                      nextDoc, Resp("removeVideoFromPlaylist", 200, 200, "ok"))

deletePlaylist(user, playlistId) ==
    IF ~isValidObjectId(playlistId)
    THEN Same(Resp("deletePlaylist", 400, 400, "invalidId"))
    ELSE IF playlistId \notin DOMAIN playlists
    THEN Same(Resp("deletePlaylist", 404, 404, "noPlaylist"))
    ELSE IF playlists[playlistId].owner # user
    THEN Same(Resp("deletePlaylist", 401, 401, "notOwner"))
    ELSE PlaylistsOut(Delete(playlists, playlistId), nextDoc,
                      Resp("deletePlaylist", 200, 200, "ok"))

\* updatePlaylist writing a new document in place of the stored one
updatePlaylist_Replaces(user, playlistId, name, description) ==
    IF ~isValidObjectId(playlistId) \/ playlistId \notin DOMAIN playlists
    THEN Same(Resp("updatePlaylist", 404, 404, "noPlaylist"))
    ELSE PlaylistsOut([playlists EXCEPT ![playlistId] =
                          [owner |-> 0, name |-> name,
                           description |-> description, videos |-> <<>>]],
                      nextDoc, Resp("updatePlaylist", 200, 200, "ok"))

updatePlaylist(user, playlistId, name, description) ==
    IF ~isValidObjectId(playlistId)
    THEN Same(Resp("updatePlaylist", 400, 400, "invalidId"))
    ELSE IF name = "" \/ description = ""
    THEN Same(Resp("updatePlaylist", 400, 400, "missingField"))
    ELSE IF playlistId \notin DOMAIN playlists
    THEN Same(Resp("updatePlaylist", 404, 404, "noPlaylist"))
    ELSE IF playlists[playlistId].owner # user
    THEN Same(Resp("updatePlaylist", 401, 401, "notOwner"))
    ELSE PlaylistsOut([playlists EXCEPT ![playlistId].name = name,
                                        ![playlistId].description = description],
                      nextDoc, Resp("updatePlaylist", 200, 200, "ok"))

(* ------------------------------- actions ------------------------------- *)
\* the state a handler leaves behind and its response
Apply(out) ==
    /\ users' = out.users
    /\ cloud' = out.cloud
    /\ nextAsset' = out.nextAsset
    /\ videos' = out.videos
    /\ nextVideo' = out.nextVideo
    /\ subs' = out.subs
    /\ comments' = out.comments
    /\ tweets' = out.tweets
    /\ playlists' = out.playlists
    /\ likes' = out.likes
    /\ nextDoc' = out.nextDoc
    /\ last' = Summary(out.resp)

Tick ==
    /\ now < MaxTime
    /\ now' = now + 1
    /\ UNCHANGED <<stores, last, pending, toggling>>

\* request bodies: every well-formed combination, and one body per way of
\* being malformed
RegisterBodies ==
    {<<u, e, "Ana", "pw1">> : u \in {"ana", "ANA", "bob"},
                              e \in {"ana@x.com", "ANA@x.com", "bob@x.com"}}
    \cup {<<"", "ana@x.com", "Ana", "pw1">>, <<"ana", "", "Ana", "pw1">>,
          <<"ana", "ana@x.com", "", "pw1">>, <<"ana", "ana@x.com", "Ana", "">>,
          <<"bob", "ana.x.com", "Ana", "pw1">>}

\* a multipart file field: absent, present and its transfer fails, present
\* and its transfer succeeds
Files == {"none", "fails", "stored"}

RegisterUser(Bodies, AvatarFiles, CoverFiles) ==
    \E body \in Bodies, avatar \in AvatarFiles, coverImage \in CoverFiles :
        /\ Len(users) < MaxUsers
        /\ LET out == registerUser(body[1], body[2], body[3], body[4],
                                   avatar # "none", coverImage # "none",
                                   avatar = "stored", coverImage = "stored")
           IN  /\ out.nextAsset <= MaxAssets + 1
               /\ Apply(out)
               /\ UNCHANGED others

\* registerUser up to its first await that another request can overtake:
\* answered at once, or suspended before the uploads and User.create
RegisterBegin(Bodies, AvatarFiles, CoverFiles) ==
    \E body \in Bodies, avatar \in AvatarFiles, coverImage \in CoverFiles :
        LET check == registerCheck(body[1], body[2], body[3], body[4], avatar # "none")
        IN  /\ Len(pending) < MaxPending
            /\ IF check # Pass
               THEN Apply(Same(check)) /\ UNCHANGED pending
               ELSE /\ pending' = Append(pending, [body |-> body, avatar |-> avatar,
                                                   coverImage |-> coverImage])
                    /\ UNCHANGED <<stores, last>>
            /\ UNCHANGED <<now, toggling>>

Remove(seq, k) == [i \in 1..(Len(seq) - 1) |-> IF i < k THEN seq[i] ELSE seq[i + 1]]

\* a suspended registerUser resumes: uploads, User.create, token, response
RegisterFinish ==
    \E k \in DOMAIN pending :
        LET p == pending[k]
            out == registerCreate(p.body[1], p.body[2], p.body[3], p.body[4],
                                  p.coverImage # "none", p.avatar = "stored",
                                  p.coverImage = "stored")
        IN  /\ Len(out.users) <= MaxUsers
            /\ out.nextAsset <= MaxAssets + 1
            /\ Apply(out)
            /\ pending' = Remove(pending, k)
            /\ UNCHANGED <<now, toggling>>

ConfirmEmail ==
    \E emailToken \in TokensAt("email", now) \cup {Undefined} :
        /\ Apply(confirmEmail(emailToken))
        /\ UNCHANGED others

LoginBodies ==
    {<<e, "", pw>> : e \in Emails, pw \in Passwords}
    \cup {<<"", u, pw>> : u \in Usernames, pw \in Passwords}
    \cup {<<e, "ana", pw>> : e \in {"ana@x.com", "bob@x.com"}, pw \in {"pw1"}}

LoginUser ==
    \E body \in LoginBodies :
        /\ Apply(loginUser(users, body[1], body[2], body[3]))
        /\ UNCHANGED others

LogoutUser ==
    \E cred \in Credentials(now) :
        /\ Apply(userRouter("logoutUser", cred[1], cred[2], <<"", "">>))
        /\ UNCHANGED others

\* the refreshToken cookie and the refreshToken field of the body
RefreshBodies(t) ==
    {<<c, Undefined>> : c \in TokensAt("refresh", t) \cup {Undefined}}
    \cup {<<Undefined, b>> : b \in TokensAt("refresh", t)}
    \cup {<<jwtSign("refresh", i, t), jwtSign("refresh", j, t)>> : i \in Ids, j \in Ids}

RefreshAccessToken ==
    \E req \in RefreshBodies(now) :
        /\ Apply(refreshAccessToken(req[1], req[2]))
        /\ UNCHANGED others

\* the credentials of the requests served: no token, a token issued at
\* second 0 or one that never verifies in the cookie, or a fresh token in the
\* Authorization header
Callers(t) ==
    {<<c, Undefined>> : c \in (TokensAt("access", 0) \cup TokensAt("access", t))
                                \ {jwtSign("access", i, t) : i \in Ids}}
        \cup {<<Undefined, Undefined>>}
        \cup {<<EmptyString, jwtSign("access", i, t)>> : i \in Ids}

AccountBodies ==
    {<<e, "Ana">> : e \in Emails} \cup {<<"ana@x.com", "">>}

UpdateAccountDetails ==
    \E cred \in Callers(now) :
        /\ \E body \in IF verifyJWT(cred[1], cred[2]) = 0
                      THEN {<<"", "">>} ELSE AccountBodies :
                Apply(userRouter("updateAccountDetails", cred[1], cred[2], body))
        /\ UNCHANGED others

\* requests to the video and subscription routes
NoParams ==
    [videoId |-> 0, channelId |-> 0, title |-> "", description |-> "",
     videoFile |-> "none", thumbnail |-> "none", published |-> TRUE,
     hasUserId |-> FALSE, userId |-> 0, query |-> ""]

VideoIds == 0..MaxVideos

Requests(route) ==
    CASE route = "publishAVideo" ->
            {[NoParams EXCEPT !.title = "t1", !.description = "d1",
                              !.videoFile = f[1], !.thumbnail = f[2],
                              !.published = p] :
                f \in {<<"stored", "stored">>, <<"none", "stored">>,
                       <<"stored", "none">>, <<"stored", "fails">>,
                       <<"fails", "stored">>},
                p \in BOOLEAN}
            \cup {[NoParams EXCEPT !.title = b[1], !.description = b[2],
                                   !.videoFile = "stored", !.thumbnail = "stored"] :
                    b \in {<<"", "d1">>, <<"t1", "">>}}
      [] route = "getAllVideos" ->
            {[NoParams EXCEPT !.hasUserId = TRUE, !.userId = i] : i \in 0..MaxUsers}
            \cup {[NoParams EXCEPT !.query = q] : q \in {"", "t1", "t2"}}
      [] route = "updateVideo" ->
            {[NoParams EXCEPT !.videoId = v, !.title = "t2", !.description = "d1"] :
                v \in VideoIds}
            \cup {[NoParams EXCEPT !.videoId = 1, !.title = b[1],
                                   !.description = b[2]] :
                    b \in {<<"", "d1">>, <<"t1", "">>}}
      [] route = "updateVideoThumbnail" ->
            {[NoParams EXCEPT !.videoId = v, !.thumbnail = f] :
                v \in VideoIds, f \in Files}
      [] route \in {"getVideoById", "deleteVideo", "togglePublishStatus"} ->
            {[NoParams EXCEPT !.videoId = v] : v \in VideoIds}
      [] route = "toggleSubscription" ->
            {[NoParams EXCEPT !.channelId = c] : c \in 0..MaxUsers}
      [] OTHER -> {NoParams}

\* a request to a route of the video router
VideoRequest ==
    \E route \in VideoRoutes, cred \in Callers(now) :
        \E req \in IF verifyJWT(cred[1], cred[2]) = 0
                   THEN {NoParams} ELSE Requests(route) :
            \E out \in {videoRouter(route, cred[1], cred[2], req)} :
                /\ out.nextAsset <= MaxAssets + 1
                /\ out.nextVideo <= MaxVideos + 1
                /\ Apply(out)
                /\ UNCHANGED others

\* a request to a route of the subscription router
SubscriptionRequest ==
    \E route \in SubscriptionRoutes, cred \in Callers(now) :
        \E req \in IF verifyJWT(cred[1], cred[2]) = 0
                   THEN {NoParams} ELSE Requests(route) :
            \E out \in {subscriptionRouter(route, cred[1], cred[2], req)} :
                /\ Apply(out)
                /\ UNCHANGED others

\* a suspended toggle whose query saw a document that out has deleted holds
\* the _id of a document that is gone
Marked(seq, out) ==
    [k \in DOMAIN seq |->
        LET p == seq[k]
            deleted == IF p.kind = "subscription"
                       THEN out.subs[<<p.user, p.target>>] < subs[<<p.user, p.target>>]
                       ELSE Likes(out.likes, p.kind, p.user, p.target)
                                < Likes(likes, p.kind, p.user, p.target)
        IN  IF p.seen = "found" /\ deleted THEN [p EXCEPT !.seen = "gone"] ELSE p]

\* a request for a handler of the subscription controller
SubscriptionCall ==
    \E user \in UserIds, channelId \in 1..MaxUsers :
        \E out \in {toggleSubscription(user, channelId),
                    getSubscribedChannels(user),
                    getUserChannelSubscribers(user)} :
            /\ Apply(out)
            /\ toggling' = Marked(toggling, out)
            /\ UNCHANGED <<now, pending>>

\* a request for getUserChannelProfile, behind the guard
ProfileCall ==
    \E user \in UserIds, username \in Usernames :
        /\ Apply(getUserChannelProfile(user, username))
        /\ UNCHANGED others

LikeKinds == {"video", "comment", "tweet"}

\* the ids a toggle request can name
TargetIds(kind) ==
    CASE kind = "subscription" -> 1..MaxUsers
      [] kind = "video" -> 1..MaxVideos
      [] OTHER -> 1..MaxDocs

\* a request for a handler of the like controller
LikeCall(Kinds) ==
    \E user \in UserIds, kind \in Kinds :
        \E out \in {toggleLike(kind, user, targetId) : targetId \in TargetIds(kind)}
                   \cup {getLikedVideos(user)} :
            /\ Apply(out)
            /\ toggling' = Marked(toggling, out)
            /\ UNCHANGED <<now, pending>>

\* a toggle up to its findOne: answered at once, or suspended before its
\* create or deleteOne
ToggleBegin(Kinds, Accounts) ==
    \E kind \in Kinds, user \in UserIds \cap Accounts :
      \E targetId \in TargetIds(kind) :
        LET found == IF kind = "subscription"
                     THEN subscriptionFind(user, targetId)
                     ELSE likeFind(kind, user, targetId)
        IN  /\ Len(toggling) < MaxPending
            /\ IF found.status # 0
               THEN Apply(Same(found)) /\ UNCHANGED toggling
               ELSE /\ toggling' = Append(toggling,
                                          [kind |-> kind, user |-> user,
                                           target |-> targetId, seen |-> found.path])
                    /\ UNCHANGED <<stores, last>>
            /\ UNCHANGED <<now, pending>>

\* a suspended toggle resumes: create or deleteOne, response
ToggleFinish ==
    \E k \in DOMAIN toggling :
        LET p == toggling[k]
            out == IF p.kind = "subscription"
                   THEN subscriptionWrite(p.user, p.target, p.seen)
                   ELSE likeWrite(p.kind, p.user, p.target, p.seen)
        IN  /\ Apply(out)
            /\ toggling' = Marked(Remove(toggling, k), out)
            /\ UNCHANGED <<now, pending>>

\* Handlers reached behind the guard: request.user is the account it attached.
\* The accounts in Authors are those that create content.

\* a request for a handler of the video controller that acts on one video
VideoCall(Authors) ==
    \E user \in UserIds, videoId \in 1..MaxVideos :
        \E out \in {publishAVideo(author, "t1", "d1", "stored", "stored", TRUE) :
                        author \in Authors \cap {user}} \cup
                   {updateVideo(user, videoId, "t2", "d1"),
                    updateVideoThumbnail(user, videoId, "stored"),
                    deleteVideo(user, videoId),
                    togglePublishStatus(user, videoId)} :
            /\ out.nextAsset <= MaxAssets + 1
            /\ out.nextVideo <= MaxVideos + 1
            /\ Apply(out)
            /\ UNCHANGED others

\* a request for a handler of the comment controller
CommentCall(Authors) ==
    \E user \in UserIds, videoId \in 1..MaxVideos, commentId \in 1..MaxDocs :
        \E out \in {addComment(author, videoId, "c1") : author \in Authors \cap {user}} \cup
                   {updateComment(user, commentId, "c2"),
                    deleteComment(user, commentId)} :
            /\ out.nextDoc <= MaxDocs + 1
            /\ Apply(out)
            /\ UNCHANGED others

\* a request for a handler of the tweet controller
TweetCall(Authors) ==
    \E user \in UserIds, tweetId \in 1..MaxDocs :
        \E out \in {createTweet(author, "c1") : author \in Authors \cap {user}} \cup
                   {updateTweet(user, tweetId, "c2"),
                    deleteTweet(user, tweetId)} :
            /\ out.nextDoc <= MaxDocs + 1
            /\ Apply(out)
            /\ UNCHANGED others

\* a request for a handler of the playlist controller
PlaylistCall(Authors) ==
    \E user \in UserIds, playlistId \in 1..MaxDocs, videoId \in 1..MaxVideos :
        \E out \in {createPlaylist(author, "n1", "d1") : author \in Authors \cap {user}} \cup
                   {addVideoToPlaylist(user, playlistId, videoId),
                    removeVideoFromPlaylist(user, playlistId, videoId),
                    deletePlaylist(user, playlistId),
                    updatePlaylist(user, playlistId, "n2", "d1")} :
            /\ out.nextDoc <= MaxDocs + 1
            /\ Apply(out)
            /\ UNCHANGED others

\* addVideoToPlaylist up to its membership test: answered at once, or
\* suspended before its push and save
AddVideoBegin ==
    \E user \in UserIds, playlistId \in 1..MaxDocs, videoId \in 1..MaxVideos :
        LET found == addVideoFind(user, playlistId, videoId)
        IN  /\ Len(toggling) < MaxPending
            /\ IF found.status # 0
               THEN Apply(Same(found)) /\ UNCHANGED toggling
               ELSE /\ toggling' = Append(toggling,
                                          [kind |-> "playlist", user |-> user,
                                           target |-> playlistId, video |-> videoId])
                    /\ UNCHANGED <<stores, last>>
            /\ UNCHANGED <<now, pending>>

\* a suspended addVideoToPlaylist resumes: push, save, response
AddVideoFinish ==
    \E k \in DOMAIN toggling :
        /\ Apply(addVideoSave(toggling[k].target, toggling[k].video))
        /\ toggling' = Remove(toggling, k)
        /\ UNCHANGED <<now, pending>>

\* a request that uploads or removes remote assets: the transfer of the
\* file and each removal succeed or fail
MediaCall ==
    \E user \in UserIds, videoId \in 1..MaxVideos, file \in {"stored", "fails"},
       fileOk \in BOOLEAN, thumbnailOk \in BOOLEAN :
        \E out \in {updateUserAvatar(user, file, fileOk),
                    updateUserCoverImage(user, file, fileOk),
                    publishAVideo(user, "t1", "d1", "stored", "stored", TRUE),
                    updateVideoThumbnail(user, videoId, file),
                    deleteVideoWith(user, videoId, fileOk, thumbnailOk)} :
            /\ out.nextAsset <= MaxAssets + 1
            /\ out.nextVideo <= MaxVideos + 1
            /\ Apply(out)
            /\ UNCHANGED others

\* refreshAccessToken up to the comparison with the stored token, for a
\* request that presents the token stored for an account or no token:
\* answered at once, or suspended before generateAccessAndRefreshToken
RefreshBegin ==
    \E cookieToken \in {users[id].refreshToken : id \in UserIds} \cup {Undefined} :
        LET found == refreshFind(cookieToken, Undefined)
        IN  /\ Len(toggling) < MaxPending
            /\ IF found.status # 0
               THEN Apply(Same(found)) /\ UNCHANGED toggling
               ELSE /\ toggling' = Append(toggling,
                                          [kind |-> "refresh", user |-> found.uid,
                                           seen |-> found.path, overtaken |-> FALSE])
                    /\ UNCHANGED <<stores, last>>
            /\ UNCHANGED <<now, pending>>

\* a suspended refreshAccessToken resumes: the pair is generated and stored,
\* response; the requests of the account still suspended have been overtaken
RefreshFinish ==
    \E k \in DOMAIN toggling :
        LET p == toggling[k]
            rest == Remove(toggling, k)
        IN  /\ Apply(refreshWrite(p.user, p.seen))
            /\ toggling' = [i \in DOMAIN rest |->
                                IF rest[i].user = p.user
                                THEN [rest[i] EXCEPT !.overtaken = TRUE]
                                ELSE rest[i]]
            /\ UNCHANGED <<now, pending>>

\* a request for changePassword, behind the guard
ChangePassword ==
    \E user \in UserIds, oldPassword \in Passwords, newPassword \in Passwords :
        /\ Apply(changePassword(user, oldPassword, newPassword))
        /\ UNCHANGED others

\* a read-one request for a video, its comments or a playlist
ReadCall ==
    \E videoId \in VideoIds, playlistId \in 0..MaxDocs :
        \E out \in {getVideoById(videoId), getVideoComments(videoId),
                    getPlaylistById(playlistId)} :
            /\ Apply(out)
            /\ UNCHANGED others

Init ==
    /\ users = <<>>
    /\ cloud = {}
    /\ nextAsset = 1
    /\ now = 0
    /\ last = NoResponse
    /\ pending = <<>>
    /\ videos = <<>>
    /\ nextVideo = 1
    /\ subs = [pair \in Ids \X Ids |-> 0]
    /\ comments = <<>>
    /\ tweets = <<>>
    /\ playlists = <<>>
    /\ likes = EmptyBag
    /\ nextDoc = 1
    /\ toggling = <<>>

(* ---------------------------- specifications -------------------------- *)
\* sessions: registration, login, logout and refresh-token rotation
NextSession ==
    \/ Tick
    \/ RegisterUser(RegisterBodies, Files, {"none"})
    \/ LoginUser
    \/ LogoutUser
    \/ RefreshAccessToken

SpecSession == Init /\ [][NextSession]_vars

\* registrations that collide on a username or an email, one that does not,
\* and one with a malformed email
RaceBodies ==
    {<<"ana", "ana@x.com", "Ana", "pw1">>, <<"ANA", "bob@x.com", "Ana", "pw1">>,
     <<"bob", "ANA@x.com", "Ana", "pw1">>, <<"bob", "bob@x.com", "Ana", "pw1">>,
     <<"bob", "ana.x.com", "Ana", "pw1">>}

\* email verification: registration and confirmEmail
NextEmail ==
    \/ Tick
    \/ RegisterUser(RaceBodies, Files, {"none", "stored"})
    \/ ConfirmEmail

SpecEmail == Init /\ [][NextEmail]_vars

\* the account directory under interleaved requests: registrations racing
\* each other and profile updates
NextDirectory ==
    \/ Tick
    \/ RegisterBegin(RaceBodies, {"none", "stored"}, {"none"})
    \/ RegisterFinish
    \/ UpdateAccountDetails

SpecDirectory == Init /\ [][NextDirectory]_vars

\* the guarded routers, with one account for their requests to act for
ChannelBodies == {<<"ana", "ana@x.com", "Ana", "pw1">>}

NextRoutes ==
    \/ Tick
    \/ RegisterUser(ChannelBodies, {"stored"}, {"none"})
    \/ VideoRequest
    \/ SubscriptionRequest

SpecRoutes == Init /\ [][NextRoutes]_vars

\* content owned by one account and requested by another
OwnerBodies ==
    {<<"ana", "ana@x.com", "Ana", "pw1">>, <<"bob", "bob@x.com", "Bob", "pw2">>}

NextOwnership ==
    \/ RegisterUser(OwnerBodies, {"stored"}, {"none"})
    \/ VideoCall({1})
    \/ CommentCall({1})
    \/ TweetCall({1})
    \/ PlaylistCall({1})

SpecOwnership == Init /\ [][NextOwnership]_vars

\* subscriptions, whole toggles only
NextSubscriptions ==
    \/ RegisterUser(OwnerBodies, {"stored"}, {"none"})
    \/ SubscriptionCall
    \/ ProfileCall

SpecSubscriptions == Init /\ [][NextSubscriptions]_vars

\* toggles of subscriptions and of tweet likes that overtake each other
\* between their query and their write
NextToggles ==
    \/ RegisterUser(OwnerBodies, {"stored"}, {"none"})
    \/ TweetCall({1})
    \/ ToggleBegin({"subscription", "tweet"}, {2})
    \/ ToggleFinish

SpecToggles == Init /\ [][NextToggles]_vars

\* likes of one account on its video, comments and tweets, whole toggles only
NextLikes ==
    \/ RegisterUser(ChannelBodies, {"stored"}, {"none"})
    \/ VideoCall({1})
    \/ CommentCall({1})
    \/ TweetCall({1})
    \/ LikeCall(LikeKinds)

SpecLikes == Init /\ [][NextLikes]_vars

\* playlists of one account over its videos
NextPlaylists ==
    \/ RegisterUser(ChannelBodies, {"stored"}, {"none"})
    \/ VideoCall({1})
    \/ PlaylistCall({1})
    \/ ReadCall

SpecPlaylists == Init /\ [][NextPlaylists]_vars

\* playlists of one account while addVideoToPlaylist requests overtake each
\* other between reading the playlist and saving it
NextMembership ==
    \/ RegisterUser(ChannelBodies, {"stored"}, {"none"})
    \/ VideoCall({1})
    \/ PlaylistCall({1})
    \/ AddVideoBegin
    \/ AddVideoFinish

SpecMembership == Init /\ [][NextMembership]_vars

\* remote assets of one account: profile images, videos and thumbnails
NextMedia ==
    \/ RegisterUser(ChannelBodies, {"stored"}, {"none", "stored"})
    \/ MediaCall

SpecMedia == Init /\ [][NextMedia]_vars

\* refreshAccessToken requests of the accounts that overtake each other
\* between reading the account and storing the new token
NextRotation ==
    \/ Tick
    \/ RegisterUser(OwnerBodies, {"stored"}, {"none"})
    \/ LoginUser
    \/ RefreshBegin
    \/ RefreshFinish

SpecRotation == Init /\ [][NextRotation]_vars

\* passwords: registration, change of password and login
NextPasswords ==
    \/ RegisterUser(OwnerBodies, {"stored"}, {"none"})
    \/ ChangePassword
    \/ LoginUser

SpecPasswords == Init /\ [][NextPasswords]_vars

(* ======================= claims: sessions (SpecSession) ================ *)
\* a refresh request whose token verifies and names an existing account
ValidRefresh(req) ==
    /\ ~Falsy(Incoming(req[1], req[2]))
    /\ jwtVerify(Incoming(req[1], req[2]), "refresh", now)
    /\ Exists(Incoming(req[1], req[2])._id)

Stored(req) == users[Incoming(req[1], req[2])._id].refreshToken

\* C1: refreshAccessToken with a validly signed, unexpired refresh token that
\* is not the one stored on its account is answered 401, and no two different
\* refresh tokens of one account are accepted in the same state.
C1_StaleRefreshUnauthorized ==
    /\ \A req \in RefreshBodies(now) :
        (ValidRefresh(req) /\ Incoming(req[1], req[2]) # Stored(req))
            => refreshAccessToken(req[1], req[2]).resp.status = 401
    /\ \A r1 \in RefreshBodies(now), r2 \in RefreshBodies(now) :
        (/\ refreshAccessToken(r1[1], r1[2]).resp.status = 200
         /\ refreshAccessToken(r2[1], r2[2]).resp.status = 200
         /\ Incoming(r1[1], r1[2])._id = Incoming(r2[1], r2[2])._id)
            => Incoming(r1[1], r1[2]) = Incoming(r2[1], r2[2])

\* a refresh with a token other than the stored one was answered 401 while
\* the account held a refresh token
C1_Witness ==
    /\ last.op = "refreshAccessToken"
    /\ last.path = "mismatch"
    /\ last.status = 401
    /\ \E id \in UserIds : users[id].refreshToken.iat < now /\ ~Falsy(users[id].refreshToken)

\* C2: refreshAccessToken with the stored refresh token answers 200 with a new
\* access and refresh token; afterwards the stored refresh token is the one
\* returned, and the token just presented is no longer the stored one.
C2_RefreshRotates ==
    \A req \in RefreshBodies(now) :
        (ValidRefresh(req) /\ Incoming(req[1], req[2]) = Stored(req))
            => LET out == refreshAccessToken(req[1], req[2])
                   id == Incoming(req[1], req[2])._id
               IN  /\ out.resp.status = 200
                   /\ ~Falsy(out.resp.accessToken)
                   /\ ~Falsy(out.resp.refreshToken)
                   /\ out.users[id].refreshToken = out.resp.refreshToken
                   /\ out.users[id].refreshToken # Incoming(req[1], req[2])

\* C3: a rejected refresh request generates no tokens and leaves the stored
\* refresh token of every account unchanged.
C3_RejectedRefreshChangesNothing ==
    [][(last'.op = "refreshAccessToken" /\ last'.status # 200)
            => users' = users]_vars

\* C4: after logoutUser the account has no stored refresh token and keeps
\* none until the next successful loginUser (stated for the request served
\* right after the logout).
C4_LoggedOutUntilLogin ==
    [][(/\ last.op = "logoutUser"
        /\ last.status = 200
        /\ ~(last'.op = "loginUser" /\ last'.status = 200))
            => (/\ users[last.uid].refreshToken = Undefined
                /\ users'[last.uid].refreshToken = Undefined)]_vars

\* the password every registration of the model sends
RegisteredPassword == "pw1"

\* the login identifies account id and nothing else
Identifies(us, email, username, id) ==
    /\ email # "" \/ username # ""
    /\ email # "" => Normalize(email) = us[id].email
    /\ username # "" => Normalize(username) = us[id].username

LoginSucceeds(us, email, username, password, id) ==
    LET out == loginUser(us, email, username, password)
    IN  /\ out.resp.status = 200
        /\ out.resp.uid = id
        /\ ~Falsy(out.resp.accessToken)
        /\ ~Falsy(out.resp.refreshToken)
        /\ out.users[id].refreshToken = out.resp.refreshToken

\* C5: after a successful registerUser, loginUser with the registered
\* username or email and the registered password answers 200 with a non-empty
\* access and refresh token and stores that refresh token on the account:
\* right after the registration, and in every later state of the account.
C5_LoginAfterRegister ==
    /\ \A body \in RegisterBodies, avatar \in Files :
        LET reg == registerUser(body[1], body[2], body[3], body[4],
                                avatar # "none", FALSE, avatar = "stored", FALSE)
        IN  (Len(users) < MaxUsers /\ reg.resp.status = 201)
                => /\ LoginSucceeds(reg.users, body[2], "", body[4], reg.resp.uid)
                   /\ LoginSucceeds(reg.users, "", body[1], body[4], reg.resp.uid)
    /\ \A id \in UserIds, body \in LoginBodies :
        (Identifies(users, body[1], body[2], id) /\ body[3] = RegisteredPassword)
            => LoginSucceeds(users, body[1], body[2], body[3], id)

\* a registered account has logged in, after an earlier login of its own
C5_Witness ==
    /\ last.op = "loginUser"
    /\ last.status = 200
    /\ users[last.uid].refreshToken.iat = now
    /\ now > 0

\* a well-formed login body
WellFormedLogin(email, username, password) ==
    /\ email # "" \/ username # ""
    /\ email # "" => validateEmail(email)
    /\ password # ""

\* C6: a failed loginUser issues no tokens and changes no stored refresh
\* token; a well-formed login whose identifier matches no account is answered
\* 404, one that matches an account but carries a wrong password 401.
C6_FailedLogin ==
    \A body \in LoginBodies :
        LET out == loginUser(users, body[1], body[2], body[3])
            hit == {i \in UserIds :
                      \/ (body[1] # "" /\ users[i].email = Normalize(body[1]))
                      \/ (body[2] # "" /\ users[i].username = Normalize(body[2]))}
        IN  /\ out.resp.status # 200
                => /\ out.users = users
                   /\ Falsy(out.resp.accessToken)
                   /\ Falsy(out.resp.refreshToken)
            /\ (WellFormedLogin(body[1], body[2], body[3]) /\ hit = {})
                => out.resp.status = 404
            /\ (/\ WellFormedLogin(body[1], body[2], body[3])
                /\ hit # {}
                /\ body[3] # RegisteredPassword)
                => out.resp.status = 401

\* a login with a wrong password was answered 401 for an account that holds
\* a refresh token
C6_Witness ==
    /\ last.op = "loginUser"
    /\ last.status = 401
    /\ last.path = "wrongPassword"
    /\ ~Falsy(users[last.uid].refreshToken)

(* ==================== claims: email verification (SpecEmail) =========== *)
\* C7: the verified-email flag becomes true only through a confirmEmail that
\* succeeds, and a confirmEmail that fails (its token well signed but not the
\* stored one) leaves the account unverified with its stored token unchanged.
C7_OnlyStoredTokenVerifies ==
    [][/\ \A id \in UserIds :
            (~users[id].isVerifiedEmail /\ users'[id].isVerifiedEmail)
                => (last'.op = "confirmEmail" /\ last'.status < 400)
       /\ (last'.op = "confirmEmail" /\ last'.status >= 400) => users' = users]_vars

\* an email token that verifies, for an existing account
ValidEmailToken(emailToken) ==
    /\ ~Falsy(emailToken)
    /\ verifyEmailToken(emailToken)
    /\ Exists(emailToken._id)

\* C8: a confirmEmail with the stored token marks the account verified and
\* clears the stored token; every confirmEmail for a verified account, the
\* same token replayed included, fails as already verified and changes nothing.
C8_ConfirmOnce ==
    \A emailToken \in TokensAt("email", now) :
        ValidEmailToken(emailToken) =>
            LET out == confirmEmail(emailToken)
                id == emailToken._id
            IN  /\ (~users[id].isVerifiedEmail /\ emailToken = users[id].emailToken)
                    => /\ out.resp.status < 400
                       /\ out.users[id].isVerifiedEmail
                       /\ out.users[id].emailToken = EmptyString
                /\ users[id].isVerifiedEmail
                    => /\ out.resp.status = 400
                       /\ out.resp.path = "alreadyVerified"
                       /\ out.users = users

\* a confirmEmail was refused as already verified
C8_Witness ==
    /\ last.op = "confirmEmail"
    /\ last.path = "alreadyVerified"
    /\ users[last.uid].isVerifiedEmail
    /\ users[last.uid].emailToken = EmptyString

(* =================== claims: account directory (SpecDirectory) ========= *)
Taken(username, email) ==
    \E i \in UserIds :
        users[i].username = Normalize(username) \/ users[i].email = Normalize(email)

\* C9: no two accounts share a username and no two share an email, whatever
\* the interleaving of registerUser and updateAccountDetails requests; a
\* registerUser whose username or email is that of an existing account is
\* rejected and creates no account, when it runs alone and when it resumes
\* after another request took the name.
C9_UniqueUsernameAndEmail ==
    /\ \A i \in UserIds, j \in UserIds :
        i # j => (users[i].username # users[j].username
                  /\ users[i].email # users[j].email)
    /\ \A body \in RegisterBodies, coverImage \in Files :
        Taken(body[1], body[2])
            => LET out == registerUser(body[1], body[2], body[3], body[4],
                                       TRUE, coverImage # "none", TRUE,
                                       coverImage = "stored")
               IN  out.users = users /\ out.resp.status >= 400
    /\ \A k \in DOMAIN pending :
        Taken(pending[k].body[1], pending[k].body[2])
            => LET out == registerCreate(pending[k].body[1], pending[k].body[2],
                                         pending[k].body[3], pending[k].body[4],
                                         FALSE, TRUE, FALSE)
               IN  out.users = users /\ out.resp.status >= 400

\* a registration that passed the existence query lost the race and was
\* refused by the index, while another one is still suspended
C9_Witness ==
    /\ last.op = "registerUser"
    /\ last.path = "thrown"
    /\ users # <<>>
    /\ pending # <<>>

(* ================== claims: guarded routers (SpecRoutes) =============== *)
\* the token the guard reads is a live access token of an existing account
ValidAccess(cred) ==
    LET accessToken == IF ~Falsy(cred[1]) THEN cred[1] ELSE cred[2]
    IN  /\ ~Falsy(accessToken)
        /\ accessToken.sig = "good"
        /\ accessToken.kind = "access"
        /\ now < accessToken.iat + AccessTokenExpiry
        /\ accessToken._id \in UserIds

\* a 401 on a route, with every collection and the remote store as they are
Rejected(route) ==
    [users |-> users, cloud |-> cloud, nextAsset |-> nextAsset, videos |-> videos,
     nextVideo |-> nextVideo, subs |-> subs, comments |-> comments,
     tweets |-> tweets, playlists |-> playlists, likes |-> likes,
     nextDoc |-> nextDoc, resp |-> Resp(route, 401, 401, "verifyJWT")]

\* C10: a request to any video route or any subscription route that carries
\* no access token, or one that is not valid, is answered 401 and leaves the
\* accounts, the videos, the subscriptions and the remote assets as they were.
C10_GuardedRoutes ==
    \A cred \in Credentials(now) :
        ~ValidAccess(cred)
            => /\ \A route \in VideoRoutes : \A req \in Requests(route) :
                    videoRouter(route, cred[1], cred[2], req) = Rejected(route)
               /\ \A route \in SubscriptionRoutes : \A req \in Requests(route) :
                    subscriptionRouter(route, cred[1], cred[2], req) = Rejected(route)

\* the guard turned a delete away while there was a video to delete and a
\* subscription to toggle
C10_Witness ==
    /\ last.op = "deleteVideo"
    /\ last.path = "verifyJWT"
    /\ DOMAIN videos # {}
    /\ \E pair \in Ids \X Ids : subs[pair] > 0

\* C11: the guard lets a request through exactly when the token it reads is
\* present, verifies and names an existing account, and the handler then runs
\* for that account; otherwise the answer is 401 and the handler does not run.
\* With a cookie token and a header token both present the cookie is the one
\* verified.
C11_GuardAttachesAccount ==
    \A cred \in Credentials(now) :
        /\ verifyJWT(cred[1], cred[2])
              = IF ValidAccess(cred)
                THEN (IF ~Falsy(cred[1]) THEN cred[1] ELSE cred[2])._id
                ELSE 0
        /\ ~Falsy(cred[1]) => verifyJWT(cred[1], cred[2]) = verifyJWT(cred[1], Undefined)
        /\ \A req \in Requests("publishAVideo") :
              videoRouter("publishAVideo", cred[1], cred[2], req)
                = IF ValidAccess(cred)
                  THEN publishAVideo((IF ~Falsy(cred[1]) THEN cred[1] ELSE cred[2])._id,
                                     req.title, req.description, req.videoFile,
                                     req.thumbnail, req.published)
                  ELSE Rejected("publishAVideo")
        /\ \A req \in Requests("toggleSubscription") :
              subscriptionRouter("toggleSubscription", cred[1], cred[2], req)
                = IF ValidAccess(cred)
                  THEN toggleSubscription((IF ~Falsy(cred[1]) THEN cred[1] ELSE cred[2])._id,
                                          req.channelId)
                  ELSE Rejected("toggleSubscription")

\* a video was published for the account of the token, at a time when
\* tokens of second 0 have expired
C11_Witness ==
    /\ last.op = "publishAVideo"
    /\ last.status = 201
    /\ now >= AccessTokenExpiry
    /\ \E v \in DOMAIN videos : videos[v].owner \in UserIds
(* ====================== claims: ownership (SpecOwnership) ============== *)
\* the answer carries this status and no collection or remote asset changed
Refused(out, status) == out.resp.status = status /\ out = Same(out.resp)

\* of a resource that exists only its owner is served; a resource that does
\* not exist is reported 404 to everyone
OwnerOnly(collection, id, user, outs) ==
    \A out \in outs :
        /\ id \notin DOMAIN collection => Refused(out, 404)
        /\ (id \in DOMAIN collection /\ collection[id].owner # user)
              => Refused(out, 401)

\* C12: for every video, comment, tweet and playlist, a well-formed update or
\* delete request (publish toggle, thumbnail replacement and playlist
\* add/remove video included) by an account other than the owner is answered
\* 401 and leaves every collection and every remote asset as it was; when the
\* resource does not exist the answer is 404, whoever asks.
C12_OnlyOwnerChanges ==
    \A user \in UserIds :
        /\ \A videoId \in 1..MaxVideos :
              OwnerOnly(videos, videoId, user,
                        {updateVideo(user, videoId, "t2", "d2"),
                         updateVideoThumbnail(user, videoId, "stored"),
                         updateVideoThumbnail(user, videoId, "fails"),
                         deleteVideo(user, videoId),
                         togglePublishStatus(user, videoId)})
        /\ \A commentId \in 1..MaxDocs :
              OwnerOnly(comments, commentId, user,
                        {updateComment(user, commentId, "c2"),
                         deleteComment(user, commentId)})
        /\ \A tweetId \in 1..MaxDocs :
              OwnerOnly(tweets, tweetId, user,
                        {updateTweet(user, tweetId, "c2"),
                         deleteTweet(user, tweetId)})
        /\ \A playlistId \in 1..MaxDocs :
              OwnerOnly(playlists, playlistId, user,
                        {updatePlaylist(user, playlistId, "n2", "d2"),
                         deletePlaylist(user, playlistId)}
                        \cup {addVideoToPlaylist(user, playlistId, videoId) :
                                videoId \in 1..MaxVideos}
                        \cup {removeVideoFromPlaylist(user, playlistId, videoId) :
                                videoId \in 1..MaxVideos})

\* an account was refused the removal of a video from a playlist that holds
\* one and belongs to another account
C12_Witness ==
    /\ last.op = "removeVideoFromPlaylist"
    /\ last.path = "notOwner"
    /\ \E playlistId \in DOMAIN playlists : playlists[playlistId].videos # <<>>

(* =================== claims: subscriptions (SpecSubscriptions) ========= *)
\* the step in which an account with no edge to a channel toggles its
\* subscription to it
FirstToggle(user, channelId) ==
    /\ subs[<<user, channelId>>] = 0
    /\ last'.op = "toggleSubscription"
    /\ subs' # subs
    /\ subs'[<<user, channelId>>] # 0

\* C13: when an account with no subscription edge to an existing channel
\* toggles its subscription, the answer is 200 (subscribed) and the channel is
\* listed by getSubscribedChannels; the same toggle made again right after is
\* answered 200 (unsubscribed) and leaves every collection as it was before the
\* first toggle, a state in which getSubscribedChannels answers 200 without
\* listing the channel.
C13_ToggleTwiceRestores ==
    [][\A user \in UserIds, channelId \in UserIds :
          FirstToggle(user, channelId) =>
              /\ last'.status = 200 /\ last'.path = "subscribed"
              /\ channelId \in DOMAIN (getSubscribedChannels(user).resp.data)'
              /\ toggleSubscription(user, channelId)'
                    = Same(Resp("toggleSubscription", 200, 200, "unsubscribed"))
              /\ getSubscribedChannels(user).resp.status = 200
              /\ channelId \notin DOMAIN getSubscribedChannels(user).resp.data]_vars

\* the second toggle of a pair was served, with two accounts registered
C13_Witness ==
    /\ last.op = "toggleSubscription"
    /\ last.path = "unsubscribed"
    /\ Len(users) = MaxUsers
    /\ \A pair \in DOMAIN subs : subs[pair] = 0

FirstLike(kind, user, targetId) ==
    /\ targetId \in DOMAIN Targets(kind)
    /\ Likes(likes, kind, user, targetId) = 0
    /\ last'.op = ToggleOp(kind)
    /\ likes' # likes
    /\ Likes(likes', kind, user, targetId) # 0

\* the like edge of an account on a target, no other reference set
OnlyTarget(kind, user, targetId) ==
    CASE kind = "video" ->
            [likedBy |-> user, video |-> targetId, comment |-> 0, tweet |-> 0]
      [] kind = "comment" ->
            [likedBy |-> user, video |-> 0, comment |-> targetId, tweet |-> 0]
      [] kind = "tweet" ->
            [likedBy |-> user, video |-> 0, comment |-> 0, tweet |-> targetId]

\* C15: for a video, a comment and a tweet alike, when an account with no like
\* on an existing target toggles its like, the answer is 200 and the likes
\* collection gains exactly one document, for that account with only the
\* reference to that target set; the same toggle made again right after is
\* answered 200 and leaves every collection as it was before the first one.
\* getLikedVideos lists a video after the first toggle and no longer after the
\* second.
C15_LikeTwiceRestores ==
    [][\A kind \in LikeKinds, user \in UserIds :
        \A targetId \in TargetIds(kind) :
          FirstLike(kind, user, targetId) =>
              /\ last'.status = 200 /\ last'.path = "liked"
              /\ likes' = likes (+) SetToBag({OnlyTarget(kind, user, targetId)})
              /\ toggleLike(kind, user, targetId)'
                    = Same(Resp(ToggleOp(kind), 200, 200, "unliked"))
              /\ kind = "video" =>
                    /\ (getLikedVideos(user).resp.status)' = 200
                    /\ targetId \in DOMAIN (getLikedVideos(user).resp.data)'
                    /\ targetId \notin DOMAIN getLikedVideos(user).resp.data]_vars

\* the second toggle of a video like was served while the account's likes of
\* a comment and of a tweet are in place
C15_Witness ==
    /\ last.op = "toggleVideoLike"
    /\ last.path = "unliked"
    /\ \E doc \in BagToSet(likes) : doc.comment # 0
    /\ \E doc \in BagToSet(likes) : doc.tweet # 0

(* ======================= claims: playlists (SpecPlaylists) ============= *)
\* C16: addVideoToPlaylist by the owner with a video id that is already in
\* the playlist is answered 400 and changes nothing, and
\* removeVideoFromPlaylist by the owner with a video id that is not in the
\* playlist is answered 400 and changes nothing.
C16_MembershipDecides ==
    \A playlistId \in DOMAIN playlists : \A videoId \in 1..MaxVideos :
        LET playList == playlists[playlistId]
        IN  /\ Includes(playList.videos, videoId) =>
                  Refused(addVideoToPlaylist(playList.owner, playlistId, videoId), 400)
            /\ ~Includes(playList.videos, videoId) =>
                  Refused(removeVideoFromPlaylist(playList.owner, playlistId, videoId),
                          400)

\* a video id that was handed out and names no document any more
Deleted(videoId) == videoId < nextVideo /\ videoId \notin DOMAIN videos

\* the step in which deleteVideo by the owner of a video answers 200
DeleteStep(videoId) ==
    /\ videoId \in DOMAIN videos
    /\ LET out == deleteVideo(videos[videoId].owner, videoId)
       IN  /\ out.resp.status = 200
           /\ last' = Summary(out.resp)
           /\ videos' = out.videos
           /\ cloud' = out.cloud

\* every well-formed request that names the video is answered 404 and changes
\* nothing
NotFoundEverywhere(videoId) ==
    /\ Refused(getVideoById(videoId), 404)
    /\ Refused(getVideoComments(videoId), 404)
    /\ \A user \in UserIds :
          \A out \in {updateVideo(user, videoId, "t2", "d2"),
                      updateVideoThumbnail(user, videoId, "stored"),
                      deleteVideo(user, videoId),
                      togglePublishStatus(user, videoId),
                      addComment(user, videoId, "c1"),
                      toggleVideoLike(user, videoId)} :
              Refused(out, 404)

\* C17: once deleteVideo by the owner of a video has answered 200, the id
\* names no video, and it never names one again; from then on getVideoById
\* for that id is answered 404, and so is every well-formed update,
\* thumbnail, delete, publish-toggle, comment and like request that names it,
\* with nothing changed.
C17_DeletedStaysNotFound ==
    /\ [](\A videoId \in 1..MaxVideos :
            Deleted(videoId) => NotFoundEverywhere(videoId))
    /\ [][\A videoId \in 1..MaxVideos :
            /\ DeleteStep(videoId) => Deleted(videoId)'
            /\ Deleted(videoId) => Deleted(videoId)']_vars

\* a video was deleted and a later request for a video was answered 404
C17_Witness ==
    /\ \E videoId \in 1..MaxVideos : Deleted(videoId)
    /\ videos = <<>>
    /\ last.op = "getVideoById"
    /\ last.status = 404

(* ======================= claims: passwords (SpecPasswords) ============= *)
\* the account's password is this one: what is stored is its hash
HasPassword(doc, password) == doc.password = bcryptHash(Plain(password))

\* C18: changePassword with an old password that is not the account's fails
\* (400) and changes nothing; with the account's password as old password and
\* a different new password it answers 200 and stores the hash of the new
\* password on that account and nothing else, after which loginUser for the
\* account answers 200 with the new password and 401 with the old one.
C18_ChangePassword ==
    \A user \in UserIds :
      \A oldPassword \in Passwords \ {""}, newPassword \in Passwords \ {""} :
        LET out == changePassword(user, oldPassword, newPassword)
            email == users[user].email
        IN  IF ~HasPassword(users[user], oldPassword)
            THEN Refused(out, 400)
            ELSE oldPassword # newPassword =>
                   /\ out.resp.status = 200
                   /\ out = [Same(out.resp) EXCEPT !.users = out.users]
                   /\ out.users = [users EXCEPT ![user].password =
                                                bcryptHash(Plain(newPassword))]
                   /\ LoginSucceeds(out.users, email, "", newPassword, user)
                   /\ loginUser(out.users, email, "", oldPassword).resp.status = 401

\* an account whose password was changed was refused a login with a wrong
\* password and accepts the new one
C18_Witness ==
    /\ last.op = "loginUser"
    /\ last.path = "wrongPassword"
    /\ \E user \in UserIds :
          /\ last.uid = user
          /\ users[user].username = "ana"
          /\ HasPassword(users[user], "pw2")

(* ===================== claims: read-one (SpecPlaylists) ================ *)
\* C19: for a registered caller, getPlaylistById for a well-formed id that
\* names no playlist, one that was never created or one that deletePlaylist
\* removed, is answered 404, as getVideoById is for an id that names no video.
C19_ReadOneChecksExistence ==
    UserIds # {} =>
        /\ \A videoId \in 1..MaxVideos :
              videoId \notin DOMAIN videos => getVideoById(videoId).resp.status = 404
        /\ \A playlistId \in 1..MaxDocs :
              playlistId \notin DOMAIN playlists =>
                  getPlaylistById(playlistId).resp.status = 404

(* ================= claims: channel profile (SpecSubscriptions) ========= *)
\* C20: in every state reached by toggleSubscription requests,
\* getUserChannelProfile for a channel answers with isSubscribed true exactly
\* when the subscriptions collection holds an edge from the caller to that
\* channel, and with subscriberCount equal to the number of edges to that
\* channel.
C20_ProfileReflectsEdges ==
    \A caller \in UserIds, channelId \in UserIds :
        LET out == getUserChannelProfile(caller, users[channelId].username)
        IN  /\ out.resp.status = 200
            /\ out.resp.data[1].isSubscribed = (subs[<<caller, channelId>>] > 0)
            /\ out.resp.data[1].subscriberCount
                  = Cardinality({subscriber \in Ids :
                                    subs[<<subscriber, channelId>>] > 0})

(* ============== claims: playlist membership (SpecMembership) =========== *)
\* no video id occurs twice in the list
NoDuplicates(list) == \A i, j \in DOMAIN list : list[i] = list[j] => i = j

\* C21: in every reachable state no video id occurs more than once in any
\* playlist's video list, also when two addVideoToPlaylist requests for the
\* same playlist and video interleave between reading the playlist and
\* saving it.
C21_NoDuplicateVideos ==
    \A playlistId \in DOMAIN playlists : NoDuplicates(playlists[playlistId].videos)

(* ================== claims: owner references (SpecOwnership) =========== *)
\* every document of the collection that is there before and after has the
\* owner it had, and every document that is new is owned by user
OwnerKept(before, after, user) ==
    /\ \A id \in DOMAIN before \cap DOMAIN after : after[id].owner = before[id].owner
    /\ \A id \in DOMAIN after \ DOMAIN before : after[id].owner = user

OwnersKept(out, user) ==
    /\ OwnerKept(videos, out.videos, user)
    /\ OwnerKept(comments, out.comments, user)
    /\ OwnerKept(tweets, out.tweets, user)
    /\ OwnerKept(playlists, out.playlists, user)

\* C22: the owner reference of a video, comment, tweet or playlist is set to
\* the authenticated caller at creation and is never changed by any later
\* operation (update, thumbnail replacement, publish toggle, playlist
\* add/remove).
C22_OwnerImmutable ==
    \A user \in UserIds :
        /\ OwnersKept(publishAVideo(user, "t1", "d1", "stored", "stored", TRUE), user)
        /\ OwnersKept(createTweet(user, "c1"), user)
        /\ OwnersKept(createPlaylist(user, "n1", "d1"), user)
        /\ \A videoId \in 1..MaxVideos :
              /\ OwnersKept(updateVideo(user, videoId, "t2", "d2"), user)
              /\ OwnersKept(updateVideoThumbnail(user, videoId, "stored"), user)
              /\ OwnersKept(updateVideoThumbnail(user, videoId, "fails"), user)
              /\ OwnersKept(togglePublishStatus(user, videoId), user)
              /\ OwnersKept(deleteVideo(user, videoId), user)
              /\ OwnersKept(addComment(user, videoId, "c1"), user)
        /\ \A docId \in 1..MaxDocs :
              /\ OwnersKept(updateComment(user, docId, "c2"), user)
              /\ OwnersKept(deleteComment(user, docId), user)
              /\ OwnersKept(updateTweet(user, docId, "c2"), user)
              /\ OwnersKept(deleteTweet(user, docId), user)
              /\ OwnersKept(updatePlaylist(user, docId, "n2", "d2"), user)
              /\ OwnersKept(deletePlaylist(user, docId), user)
              /\ \A videoId \in 1..MaxVideos :
                    /\ OwnersKept(addVideoToPlaylist(user, docId, videoId), user)
                    /\ OwnersKept(removeVideoFromPlaylist(user, docId, videoId), user)

\* an updated video, an updated comment or tweet and an updated playlist that
\* lists a video are stored, each owned by a registered account, while a
\* second account is registered
C22_Witness ==
    /\ Cardinality(UserIds) = 2
    /\ \E v \in DOMAIN videos : videos[v].title = "t2" /\ videos[v].owner \in UserIds
    /\ \E p \in DOMAIN playlists :
          /\ playlists[p].name = "n2"
          /\ playlists[p].videos # <<>>
          /\ playlists[p].owner \in UserIds

(* ===================== claims: remote assets (SpecMedia) =============== *)
\* the previous asset of the field is removed by out only when the account
\* then references another asset that is stored; when the upload failed the
\* answer is 500, no remote asset is removed and no account is changed
KeepsPrevious(out, user, field, file) ==
    /\ (users[user][field] \in cloud /\ users[user][field] \notin out.cloud)
          => /\ out.resp.status = 200
             /\ out.users[user][field] # users[user][field]
             /\ out.users[user][field] \in out.cloud
    /\ file = "fails"
          => /\ out.resp.status = 500
             /\ out.cloud = cloud
             /\ out.users = users

\* C23: avatar and cover-image replacement delete the previous remote asset
\* only after the new upload is confirmed stored; when the upload fails the
\* answer is 500, the previous remote asset is not deleted and the account
\* still references it.
C23_ImageReplacedAfterUpload ==
    \A user \in UserIds, file \in {"stored", "fails"}, destroyOk \in BOOLEAN :
        /\ KeepsPrevious(updateUserAvatar(user, file, destroyOk), user, "avatar", file)
        /\ KeepsPrevious(updateUserCoverImage(user, file, destroyOk), user,
                         "coverImage", file)

\* an avatar upload has just failed for an account whose avatar had been
\* replaced before and whose present avatar is stored remotely
C23_Witness ==
    /\ last.op = "updateUserAvatar"
    /\ last.status = 500
    /\ \E user \in UserIds : users[user].avatar \in cloud /\ users[user].avatar > 1

\* C24: video thumbnail replacement deletes the previous remote thumbnail
\* only after the new thumbnail upload succeeded: whenever
\* updateVideoThumbnail fails, the video still references a remote thumbnail
\* that exists.
C24_ThumbnailReplacedAfterUpload ==
    \A user \in UserIds, videoId \in DOMAIN videos, file \in Files :
        LET out == updateVideoThumbnail(user, videoId, file)
        IN  (out.resp.status >= 400 /\ videos[videoId].thumbnail \in cloud)
                => /\ videoId \in DOMAIN out.videos
                   /\ out.videos[videoId].thumbnail \in out.cloud

\* C25: uploadOnCloudinary given a local temp file path deletes that local
\* file on every path, whether the transfer succeeds or fails, and on a
\* transfer failure returns null instead of raising.
C25_TempFileDeleted ==
    \A disk \in SUBSET Paths, transferOk \in BOOLEAN : \A localFilePath \in disk :
        LET r == uploadLocalFile(localFilePath, transferOk, disk, cloud, nextAsset)
        IN  /\ r.disk = disk \ {localFilePath}
            /\ ~r.raised
            /\ ~transferOk => r.publicId = NoAsset /\ r.cloud = cloud
            /\ transferOk => r.publicId \in r.cloud \ cloud

\* a thumbnail upload has just failed while remote assets are stored
C25_Witness ==
    /\ last.op = "updateVideoThumbnail"
    /\ last.path = "uploadFailed"
    /\ cloud # {}

\* C26: a failure of remote asset removal never escalates:
\* removeFromCloudinary never raises, and deleteVideo by the owner requests
\* removal of both the remote video file and the remote thumbnail, then
\* deletes the video document and answers 200 whether or not those removals
\* succeeded.
C26_RemovalNeverEscalates ==
    /\ \A publicId \in cloud, destroyOk \in BOOLEAN :
          ~removeFromCloudinary(publicId, cloud, destroyOk).raised
    /\ \A videoId \in DOMAIN videos, fileOk \in BOOLEAN, thumbnailOk \in BOOLEAN :
          LET video == videos[videoId]
              out == deleteVideoWith(video.owner, videoId, fileOk, thumbnailOk)
          IN  /\ out.resp.status = 200
              /\ out.videos = Delete(videos, videoId)
              /\ fileOk => video.videoFile \notin out.cloud
              /\ thumbnailOk => video.thumbnail \notin out.cloud
              /\ out.cloud \subseteq cloud
              /\ cloud \ out.cloud \subseteq {video.videoFile, video.thumbnail}

\* a video has just been deleted with 200 and a remote asset that had been
\* uploaded for a video is still stored: its removal failed
C26_Witness ==
    /\ last.op = "deleteVideo"
    /\ last.status = 200
    /\ \E publicId \in cloud :
          /\ \A user \in UserIds : publicId \notin {users[user].avatar, users[user].coverImage}
          /\ \A videoId \in DOMAIN videos :
                publicId \notin {videos[videoId].videoFile, videos[videoId].thumbnail}

(* ================ claims: interleaved refresh (SpecRotation) =========== *)
\* C27: two refreshAccessToken requests that present the same currently
\* stored refresh token of an account can interleave (both read the account
\* before either writes) so that both succeed with 200; afterwards the stored
\* refresh token is the one written last and the refresh token returned to
\* the other request is already stale. Stated of the request that writes
\* last, right after the other got its 200: the token stored is the one
\* returned to the other request.
C27_OvertakenRefreshStale ==
    \A k \in DOMAIN toggling :
        LET p == toggling[k]
            out == refreshWrite(p.user, p.seen)
        IN  (/\ p.seen = "match"
             /\ p.overtaken
             /\ last.op = "refreshAccessToken"
             /\ last.status = 200
             /\ last.uid = p.user)
                => /\ out.resp.status = 200
                   /\ out.users[p.user].refreshToken = out.resp.refreshToken
                   /\ out.resp.refreshToken # users[p.user].refreshToken

(* ================= claims: responses (SpecSession) ===================== *)
\* one call of response.json, and with an error response nothing changed
OneResponse(out) ==
    /\ out.resp.writes = 1
    /\ out.resp.status >= 400 => out = Same(out.resp)

\* C28: every handler sends exactly one response per request: once a handler
\* has written an error response it performs no further state change and
\* makes no second attempt to write a response, in particular confirmEmail
\* and refreshAccessToken after a token mismatch.
C28_OneResponsePerRequest ==
    /\ \A req \in RefreshBodies(now) : OneResponse(refreshAccessToken(req[1], req[2]))
    /\ \A emailToken \in TokensAt("email", now) \cup {Undefined} :
          OneResponse(confirmEmail(emailToken))
    /\ \A body \in LoginBodies :
          loginUser(users, body[1], body[2], body[3]).resp.writes = 1

(* ================ claims: response envelope (SpecEmail) ================ *)
\* C29: on every response path of every handler the HTTP status code set on
\* the response equals the statusCode field of the JSON envelope sent in its
\* body.
C29_StatusEqualsEnvelope == last.status = last.code

(* ============== claims: playlist references (SpecPlaylists) ============ *)
\* C30: in every reachable state every video id listed in a playlist refers
\* to a video that still exists, so the playlist owner can remove any listed
\* id with removeVideoFromPlaylist; deleteVideo leaves no dangling reference
\* in any playlist.
C30_NoDanglingReference ==
    \A playlistId \in DOMAIN playlists :
        \A i \in DOMAIN playlists[playlistId].videos :
            LET videoId == playlists[playlistId].videos[i]
                out == removeVideoFromPlaylist(playlists[playlistId].owner,
                                               playlistId, videoId)
            IN  /\ videoId \in DOMAIN videos
                /\ out.resp.status = 200
                /\ ~Includes(out.playlists[playlistId].videos, videoId)

====
